---- MODULE Spec2Model ----
(***************************************************************************)
(* Tag-versioned access control and shared-folder-metrics reconciliation   *)
(* of the ORCA server (sprint05 handlers, sprint04 schemas and resolver).  *)
(*                                                                         *)
(* One action per HTTP handler.  Every mutating handler runs inside        *)
(* audit_middleware, so each action also takes the before/after snapshots, *)
(* builds the audit batch and runs the shared-folder-metrics reconciler.   *)
(***************************************************************************)
EXTENDS Integers, Sequences, FiniteSets, Bags, TLC

\* ---------------------------------------------------------------- bounds
MaxTime == 3        \* audited requests that stamp a timestamp
MaxTags == 2        \* tag ids the sequence can hand out
MaxVersions == 2    \* versions an output file can accumulate

\* ------------------------------------------------------- catalogue (static)
Users == {"alice", "bob"}
Roles == {"programmer", "reviewer"}
TagIds == 1..MaxTags
DLIds == {1}
OutputIds == {1, 2, 3}
TagNames == {"ADR_2024", "ADR_2025"}
DLNames == {"site_a", "site_b"}

\* database_release rows: id -> source id and the (dbr, study, compound) names
DbrIds == {1, 2, 3, 4}
DbrSource(d) == IF d = 1 THEN 1 ELSE IF d = 4 THEN 3 ELSE 2
SourceName(s) == IF s = 3 THEN "DOCS" ELSE IF s = 2 THEN "PREPROD" ELSE "PROD"
DbrNames(d) == IF d = 3 THEN <<"DBR2", "StudyY", "CompoundX">>
               ELSE <<"DBR1", "StudyY", "CompoundX">>

\* output_details rows: identifier and file_path (a path is its segments)
Identifier(o) == IF o = 3 THEN "OUT-2" ELSE "OUT-1"
FilePath(o) ==
    CASE o = 1 -> <<"adr", "PROD", "CompoundX", "StudyY", "DBR1", "file.pdf">>
      [] o = 2 -> <<"adr", "PREPROD", "CompoundX", "StudyY", "DBR1", "file.pdf">>
      [] OTHER -> <<"adr", "PREPROD", "CompoundX", "StudyY", "DBR9", "other.xlsx">>
\* output_details.source_name
OutputSourceName(o) == FilePath(o)[2]

NullTs == 0         \* file_shared_to_ts IS NULL
NullVer == -1       \* file_version_* IS NULL

VARIABLES
    tags,        \* database_release_tag rows: id -> record (live = row exists)
    nextTagId,   \* the table's id sequence
    dls,         \* distribution_lists rows: id -> record (live = row exists)
    versions,    \* output_detail_versions rows: output id -> sequence of versions
    links,       \* output_detail_database_release_tag_link rows: {<<output, tag>>}
    ledger,      \* shared_folder_metrics rows, a bag (rows have no identity but the pk)
    now,         \* the last timestamp a request stamped
    served,      \* {<<username, output id>>}: files handed out by a download
    docs_shared_as,  \* output_details.docs_shared_as: output id -> marker
    audit_logs,  \* the audit entries the last request emitted
    fault,       \* what fails in the audit layer: nothing, or one of its steps
    horizon,     \* the last timestamp the explored runs stamp
    sessions,    \* add_record requests in flight: request -> what its session loaded
    sync,        \* the Lustre-to-S3 version sync: records, repository, bucket, run
    resp         \* the last HTTP response: [status, error]

vars == <<tags, nextTagId, dls, versions, links, ledger, now, served, docs_shared_as,
          audit_logs, fault, horizon, sessions, sync, resp>>

\* a request's session before it has loaded anything
Requests == {1, 2}
IdleSession == [pc |-> "idle", tag_id |-> 0, tag_name |-> "", valid_ids |-> {},
                new_records |-> {}, draft |-> FALSE, loaded |-> <<>>, old |-> <<>>]

NoTag == [live |-> FALSE, tag_name |-> "", users |-> {}, dls |-> {},
          dbr |-> 0, source_id |-> 0]
NoDL == [live |-> FALSE, name |-> "", users |-> {}, co_owners |-> {}, created_by |-> ""]
NoTags == [k \in {} |-> ""]      \* an empty HSTORE

\* ------------------------------------------------------------- generic helpers
RECURSIVE SumOver(_, _)
SumOver(S, f) ==
    IF S = {} THEN 0
    ELSE LET x == CHOOSE y \in S : TRUE IN f[x] + SumOver(S \ {x}, f)

\* The bag obtained by rewriting every row r of bag B to g[r].
MapBag(B, g) ==
    LET img == {g[r] : r \in DOMAIN B} IN
    [q \in img |-> SumOver({r \in DOMAIN B : g[r] = q}, B)]

Range(s) == {s[i] : i \in DOMAIN s}

\* ------------------------------------------------------------- version chains
HasKey(v, t) == t \in DOMAIN v.tags
LatestIdx(o) == {i \in DOMAIN versions[o] : versions[o][i].is_latest}
\* every (output, index) of a version row
AllVersionRows(vs) == {p \in OutputIds \X (1..MaxVersions) : p[2] \in DOMAIN vs[p[1]]}

\* ------------------------------------------------ tag_utils (HSTORE helpers)
AddKey(m, k, v) == [x \in DOMAIN m \cup {k} |-> IF x = k THEN v ELSE m[x]]
RemoveKey(m, k) == [x \in DOMAIN m \ {k} |-> m[x]]

\* The version rows (output, index) of vs that carry key t / are latest.
RowsWithKey(vs, t) == {p \in AllVersionRows(vs) : t \in DOMAIN vs[p[1]][p[2]].tags}
LatestRows(vs, outs) == {p \in AllVersionRows(vs) : p[1] \in outs /\ vs[p[1]][p[2]].is_latest}
RowsOf(vs, outs) == {p \in AllVersionRows(vs) : p[1] \in outs}

\* An attachment that also takes the is_latest flag off the versions it
\* writes.
attach_clearing_latest_flag(vs, rows, tag_id, tag_name) ==
    [o \in OutputIds |->
        [i \in DOMAIN vs[o] |->
            IF <<o, i>> \in rows /\ tag_id \notin DOMAIN vs[o][i].tags
            THEN [vs[o][i] EXCEPT !.tags = AddKey(@, tag_id, tag_name), !.is_latest = FALSE]
            ELSE vs[o][i]]]

\* update_output_details_hstore_tags without the "only if the key is missing"
\* test: the value is written on every given version.
attach_overwriting_existing_key(vs, rows, tag_id, tag_name) ==
    [o \in OutputIds |->
        [i \in DOMAIN vs[o] |->
            IF <<o, i>> \in rows
            THEN [vs[o][i] EXCEPT !.tags = AddKey(@, tag_id, tag_name)]
            ELSE vs[o][i]]]

\* update_output_details_hstore_tags: insert the key where it is missing.
update_output_details_hstore_tags(vs, rows, tag_id, tag_name) ==
    [o \in OutputIds |->
        [i \in DOMAIN vs[o] |->
            IF <<o, i>> \in rows /\ tag_id \notin DOMAIN vs[o][i].tags
            THEN [vs[o][i] EXCEPT !.tags = AddKey(@, tag_id, tag_name)]
            ELSE vs[o][i]]]

\* remove_output_details_hstore_tags reaching only the latest versions.
remove_from_latest_versions_only(vs, rows, tag_id) ==
    [o \in OutputIds |->
        [i \in DOMAIN vs[o] |->
            IF <<o, i>> \in rows /\ vs[o][i].is_latest /\ tag_id \in DOMAIN vs[o][i].tags
            THEN [vs[o][i] EXCEPT !.tags = RemoveKey(@, tag_id)]
            ELSE vs[o][i]]]

\* remove_output_details_hstore_tags: delete the key where it is present.
remove_output_details_hstore_tags(vs, rows, tag_id) ==
    [o \in OutputIds |->
        [i \in DOMAIN vs[o] |->
            IF <<o, i>> \in rows /\ tag_id \in DOMAIN vs[o][i].tags
            THEN [vs[o][i] EXCEPT !.tags = RemoveKey(@, tag_id)]
            ELSE vs[o][i]]]

\* update_tag_name_in_output_versions reaching only the latest versions.
rename_on_latest_versions_only(vs, tag_id, new_tag_name) ==
    [o \in OutputIds |->
        [i \in DOMAIN vs[o] |->
            IF vs[o][i].is_latest /\ tag_id \in DOMAIN vs[o][i].tags
            THEN [vs[o][i] EXCEPT !.tags = AddKey(@, tag_id, new_tag_name)]
            ELSE vs[o][i]]]

\* update_tag_name_in_output_versions: overwrite the value on every version
\* whose HSTORE has the key.
update_tag_name_in_output_versions(vs, tag_id, new_tag_name) ==
    [o \in OutputIds |->
        [i \in DOMAIN vs[o] |->
            IF tag_id \in DOMAIN vs[o][i].tags
            THEN [vs[o][i] EXCEPT !.tags = AddKey(@, tag_id, new_tag_name)]
            ELSE vs[o][i]]]

\* ------------------------------------------------------ models: tag and DL
\* DatabaseReleaseTag.get_all_users: direct users and the users of the linked lists.
get_all_users(tg, dl, t) ==
    tg[t].users \cup UNION {dl[d].users : d \in {x \in tg[t].dls : dl[x].live}}

\* _get_users_from_distribution_lists: users of the lists with these ids.
DLUsers(dl, ids) == UNION {dl[d].users : d \in {x \in ids \cap DLIds : dl[x].live}}

\* _get_tag_ids_for_distribution_list: the tags linked to list d.
TagIdsForDL(tg, d) == {t \in TagIds : tg[t].live /\ d \in tg[t].dls}

\* ------------------------------------------------- audit_middleware snapshots
\* str(version_minor) + '.' + str(version_major), kept as its two dot-separated parts
FormatVersion(v) == <<v.minor, v.major>>

\* get_m2m_data_for_tags: one entry per version row whose HSTORE has the key.
M2MOutputs(vs, t) ==
    {[id |-> p[1], version |-> FormatVersion(vs[p[1]][p[2]])] : p \in RowsWithKey(vs, t)}

\* a snapshot: the fields of the dict, and their values
SnapFields == {"tag_name", "users", "distribution_lists", "output_details"}
AbsentSnap == [present |-> FALSE, fields |-> {}, tag_name |-> "", users |-> {},
               distribution_lists |-> {}, output_details |-> {}]

\* db.get(model, id) plus the many-to-many data; absent when the row is missing.
TagSnapshot(tg, vs, t) ==
    IF t \in TagIds /\ tg[t].live
    THEN [present |-> TRUE, fields |-> SnapFields,
          tag_name |-> tg[t].tag_name, users |-> tg[t].users,
          distribution_lists |-> tg[t].dls, output_details |-> M2MOutputs(vs, t)]
    ELSE AbsentSnap

DLSnapshot(dl, d) ==
    IF d \in DLIds /\ dl[d].live
    THEN [present |-> TRUE, fields |-> {"users"}, tag_name |-> "", users |-> dl[d].users,
          distribution_lists |-> {}, output_details |-> {}]
    ELSE AbsentSnap

\* str(dict.get(field)): "None" for a field the dict lacks, the name itself for
\* tag_name, the printed list for the list-valued fields
FieldVal(snap, f) ==
    IF f \notin snap.fields THEN <<"None">>
    ELSE IF f = "tag_name" THEN <<snap.tag_name>>
    ELSE <<"list", snap[f]>>

changed_fields_by_value(old, new) ==
    {f \in SnapFields : (f \in old.fields) # (f \in new.fields) \/ old[f] # new[f]}

\* the fields with str(old) != str(new): one audit entry each
ChangedFields(old, new) == {f \in SnapFields : FieldVal(old, f) # FieldVal(new, f)}

\* --------------------------------------- shared_folder_metrics (the ledger)
\* A ledger row.  tag_name and comment are carried by the code but read by no
\* branch, so rows keep the key, the two timestamps and the version snapshot.
Row(t, o, u, from, vmaj, vmin) ==
    [tag_id |-> t, out |-> o, user |-> u, from |-> from, to |-> NullTs,
     vmaj |-> vmaj, vmin |-> vmin]

\* rows WHERE tag_id = t AND file_shared_to_ts IS NULL
OpenRows(L, t) == {r \in DOMAIN L : r.tag_id = t /\ r.to = NullTs}

\* UPDATE ... SET file_shared_to_ts = ts on the rows of S
CloseRows(L, S, ts) ==
    IF S = {} THEN L
    ELSE MapBag(L, [r \in DOMAIN L |-> IF r \in S THEN [r EXCEPT !.to = ts] ELSE r])

\* db.add_all(rows)
InsertRows(L, S) == IF S = {} THEN L ELSE L (+) SetToBag(S)

\* version_parts[i] parsed as int, None when the part is missing
VersionPart(parts, i) == IF Len(parts) >= i THEN parts[i] ELSE NullVer

\* build_shared_metric_data: parts[0] -> file_version_major, parts[1] -> minor
build_shared_metric_data(ts, tag_id, user, output_info) ==
    Row(tag_id, output_info.id, user, ts,
        VersionPart(output_info.version, 1), VersionPart(output_info.version, 2))

OutputIdsOf(output_details) == {e.id : e \in output_details}

\* For each output id one of its entries: the code keeps the first (seen-set)
\* or the last (dict) entry in result-set order, which SQL leaves open.
Picks(output_details) ==
    {f \in [OutputIdsOf(output_details) -> output_details] :
        \A o \in OutputIdsOf(output_details) : f[o].id = o}

\* _generate_shared_metrics: one row per (user, output id)
_generate_shared_metrics(ts, tag_id, user_list, output_details, pick) ==
    IF user_list = {} \/ output_details = {} THEN {}
    ELSE {build_shared_metric_data(ts, tag_id, u, pick[o]) :
            u \in user_list, o \in OutputIdsOf(output_details)}

\* extract_metrics_from_audit_logs: a value is read from the entry of its
\* property only; the old value only when the entry has one.
LogNew(batch, f) == IF f \in batch.fields THEN batch.new[f] ELSE {}
LogOld(batch, f) == IF f \in batch.fields /\ batch.old.present THEN batch.old[f] ELSE {}

\* create_shared_folder_metrics
create_shared_folder_metrics(L, dl, batch, pick) ==
    LET user_list == LogNew(batch, "users")
                       \cup DLUsers(dl, LogNew(batch, "distribution_lists"))
        output_details == LogNew(batch, "output_details")
    IN InsertRows(L, _generate_shared_metrics(batch.ts, batch.object_key, user_list,
                                              output_details, pick))

\* _update_metrics_for_user_addition without the comparison against the
\* (user, output) pairs that are already open.
user_addition_without_existing_pairs(L, ts, user_list, object_id) ==
    LET rows == OpenRows(L, object_id)
        active_output_ids == {r.out : r \in rows}
    IN  IF user_list = {} \/ rows = {} THEN L
        ELSE InsertRows(L, {Row(object_id, oid, u, ts, NullVer, NullVer) :
                               u \in user_list, oid \in active_output_ids})

\* _update_metrics_for_user_addition: rows for the added users on the outputs
\* of the tag's open rows, minus the (user, output) pairs already open.
_update_metrics_for_user_addition(L, ts, user_list, object_id) ==
    LET rows == OpenRows(L, object_id)
        active_output_ids == {r.out : r \in rows}
        existing_pairs == {<<r.user, r.out>> : r \in {x \in rows : x.user \in user_list}}
        new_user_list == {u \in user_list :
                            \E oid \in active_output_ids : <<u, oid>> \notin existing_pairs}
        active_output_dicts == {[id |-> oid, version |-> <<>>] : oid \in active_output_ids}
        shared_metrics == _generate_shared_metrics(ts, object_id, new_user_list,
                              active_output_dicts,
                              [oid \in active_output_ids |-> [id |-> oid, version |-> <<>>]])
        final_metrics == {m \in shared_metrics : <<m.user, m.out>> \notin existing_pairs}
    IN  IF user_list = {} \/ rows = {} \/ new_user_list = {} THEN L
        ELSE InsertRows(L, final_metrics)

\* _update_metrics_for_user_removal
_update_metrics_for_user_removal(L, user_list, deleted_timestamp, object_id) ==
    CloseRows(L, {r \in OpenRows(L, object_id) : r.user \in user_list}, deleted_timestamp)

\* _update_metrics_for_outputs_added_to_tag: rows for every user the tag
\* resolves to now, on the added outputs; nothing is compared with open rows.
_update_metrics_for_outputs_added_to_tag(L, tg, dl, ts, output_details, object_id, pick) ==
    IF output_details = {} \/ ~tg[object_id].live \/ get_all_users(tg, dl, object_id) = {}
    THEN L
    ELSE InsertRows(L, _generate_shared_metrics(ts, object_id,
                           get_all_users(tg, dl, object_id), output_details, pick))

\* _update_metrics_for_outputs_removed_from_tag
_update_metrics_for_outputs_removed_from_tag(L, output_ids, deleted_timestamp, object_id) ==
    CloseRows(L, {r \in OpenRows(L, object_id) : r.out \in output_ids}, deleted_timestamp)

\* _update_metrics_for_output_version_update: rewrite the version snapshot of
\* the open rows in place (_map_versions: parts[0] -> major, parts[1] -> minor).
_update_metrics_for_output_version_update(L, output_details, object_id, pick) ==
    LET ids == OutputIdsOf(output_details)
        hit == {r \in OpenRows(L, object_id) : r.out \in ids}
    IN  IF hit = {} THEN L
        ELSE MapBag(L, [r \in DOMAIN L |->
                 IF r \in hit
                 THEN [r EXCEPT !.vmaj = VersionPart(pick[r.out].version, 1),
                                !.vmin = VersionPart(pick[r.out].version, 2)]
                 ELSE r])

\* update_shared_folder_metrics_for_tag_update up to its first commit: the
\* rows of the added and of the removed users
tag_update_user_changes(L, dl, batch) ==
    LET object_id == batch.object_key
        new_users == LogNew(batch, "users")
                       \cup DLUsers(dl, LogNew(batch, "distribution_lists"))
        old_users == LogOld(batch, "users")
                       \cup DLUsers(dl, LogOld(batch, "distribution_lists"))
        added_users == new_users \ old_users
        removed_users == old_users \ new_users
        L1 == _update_metrics_for_user_addition(L, batch.ts, added_users, object_id)
    IN  _update_metrics_for_user_removal(L1, removed_users, batch.ts, object_id)

\* update_shared_folder_metrics_for_tag_update
update_shared_folder_metrics_for_tag_update(L, tg, dl, batch, pick) ==
    LET object_id == batch.object_key
        L2 == tag_update_user_changes(L, dl, batch)
        new_value == LogNew(batch, "output_details")
        old_values == LogOld(batch, "output_details")
        added_output_ids == OutputIdsOf(new_value) \ OutputIdsOf(old_values)
        removed_output_ids == OutputIdsOf(old_values) \ OutputIdsOf(new_value)
    IN  IF added_output_ids # {}
        THEN _update_metrics_for_outputs_added_to_tag(L2, tg, dl, batch.ts,
                 {pick[o] : o \in added_output_ids}, object_id, pick)
        ELSE IF removed_output_ids # {}
        THEN _update_metrics_for_outputs_removed_from_tag(L2, removed_output_ids,
                 batch.ts, object_id)
        ELSE _update_metrics_for_output_version_update(L2, new_value, object_id, pick)

\* The per-tag loops of the distribution-list update, over the linked tags.
RECURSIVE AddUsersForTags(_, _, _, _)
AddUsersForTags(L, ts, user_list, tag_ids) ==
    IF tag_ids = {} THEN L
    ELSE LET t == CHOOSE x \in tag_ids : TRUE
         IN AddUsersForTags(_update_metrics_for_user_addition(L, ts, user_list, t),
                            ts, user_list, tag_ids \ {t})

RECURSIVE RemoveUsersForTags(_, _, _, _)
RemoveUsersForTags(L, ts, user_list, tag_ids) ==
    IF tag_ids = {} THEN L
    ELSE LET t == CHOOSE x \in tag_ids : TRUE
         IN RemoveUsersForTags(_update_metrics_for_user_removal(L, user_list, ts, t),
                               ts, user_list, tag_ids \ {t})

\* update_shared_folder_metrics_for_dl_update (for the entry of property users)
update_shared_folder_metrics_for_dl_update(L, tg, batch) ==
    LET tag_ids == TagIdsForDL(tg, batch.object_key)
        added_users == LogNew(batch, "users") \ LogOld(batch, "users")
        removed_users == LogOld(batch, "users") \ LogNew(batch, "users")
    IN  RemoveUsersForTags(AddUsersForTags(L, batch.ts, added_users, tag_ids),
                           batch.ts, removed_users, tag_ids)

tag_deletion_dropping_open_rows(L, batch) ==
    [r \in DOMAIN L \ OpenRows(L, batch.object_key) |-> L[r]]

\* update_shared_folder_metrics_for_tag_deletion
update_shared_folder_metrics_for_tag_deletion(L, batch) ==
    CloseRows(L, OpenRows(L, batch.object_key), batch.ts)

\* process_audit_logs_for_shared_folder_metrics: dispatch on the first entry
process_audit_logs_for_shared_folder_metrics(L, tg, dl, batch, pick) ==
    IF batch.object_type = "database_release_tag"
    THEN CASE batch.action = "CREATE" -> create_shared_folder_metrics(L, dl, batch, pick)
           [] batch.action \in {"UPDATE", "SYNC"} ->
                  update_shared_folder_metrics_for_tag_update(L, tg, dl, batch, pick)
           [] batch.action = "DELETE" -> update_shared_folder_metrics_for_tag_deletion(L, batch)
           [] OTHER -> L
    ELSE IF batch.action = "UPDATE" /\ "users" \in batch.fields
         THEN update_shared_folder_metrics_for_dl_update(L, tg, batch)
         ELSE L

\* The batches with a statement after a commit: the tag update commits the
\* user changes and then runs a statement when the name or the outputs changed.
has_statement_after_commit(batch) ==
    /\ batch.object_type = "database_release_tag"
    /\ batch.action \in {"UPDATE", "SYNC"}
    /\ batch.fields \cap {"tag_name", "output_details"} # {}

\* process_audit_logs_for_shared_folder_metrics when that statement raises:
\* the session is rolled back to the commit before it.
process_audit_logs_rolled_back(L, dl, batch) == tag_update_user_changes(L, dl, batch)

\* ----------------------------------------------------- tag-name conflict check
\* "/".join(file_path.split("/")[2:-1])
SplitMiddle(path) == SubSeq(path, 3, Len(path) - 1)

\* regexp_replace(regexp_replace(p, '^[^/]+/[^/]+/', ''), '/[^/]+$', '')
RegexMiddle(path) ==
    LET rest == IF Len(path) >= 3 THEN SubSeq(path, 3, Len(path)) ELSE path
    IN  IF Len(rest) >= 2 THEN SubSeq(rest, 1, Len(rest) - 1) ELSE rest

\* The conflict query without the "different source" condition turned the
\* right way round: it only looks at tags of the requesting source.
conflict_check_within_own_source(tg, vs, tag_name, source_id, payload_identifiers, names, file_paths) ==
    \E p \in AllVersionRows(vs), t \in TagIds :
        /\ tg[t].live
        /\ t \in DOMAIN vs[p[1]][p[2]].tags
        /\ tg[t].tag_name = tag_name
        /\ tg[t].source_id = source_id
        /\ Identifier(p[1]) \in payload_identifiers
        /\ DbrNames(tg[t].dbr) = names
        /\ RegexMiddle(FilePath(p[1])) \in file_paths

\* validate_dbr_tag_name_output_conflict: TRUE when the query finds a version
\* that carries a tag of this name from another source, on an output with one
\* of the identifiers, under the same release/study/compound names and with
\* the same middle path.
validate_dbr_tag_name_output_conflict(tg, vs, tag_name, source_id, payload_identifiers, names, file_paths) ==
    \E p \in AllVersionRows(vs), t \in TagIds :
        /\ tg[t].live
        /\ t \in DOMAIN vs[p[1]][p[2]].tags
        /\ tg[t].tag_name = tag_name
        /\ tg[t].source_id # source_id
        /\ Identifier(p[1]) \in payload_identifiers
        /\ DbrNames(tg[t].dbr) = names
        /\ RegexMiddle(FilePath(p[1])) \in file_paths

\* the middle paths of every version of the outputs (a version is stored
\* under its output's key)
FilePathsOf(vs, outs) == {SplitMiddle(FilePath(p[1])) : p \in RowsOf(vs, outs)}

\* uq_databaserelease_tag_lower: (lower(tag_name), database_release_id)
NameTaken(tg, t, tag_name, dbr) ==
    \E x \in TagIds \ {t} : tg[x].live /\ tg[x].tag_name = tag_name /\ tg[x].dbr = dbr

\* ------------------------------------------------------------- draft marker
\* update_output_draft_status: the marker of each given output is toggled, or
\* set from the request's flag.
update_output_draft_status(docs, output_detail_objs, identify_as_draft, toggle_mode) ==
    [o \in OutputIds |->
        IF o \notin output_detail_objs THEN docs[o]
        ELSE IF toggle_mode
             THEN IF docs[o] \in {"None", "PROD"} THEN "PREPROD" ELSE "PROD"
             ELSE IF identify_as_draft THEN "PREPROD" ELSE "PROD"]

\* clear_draft_status_from_orphan: the marker of each given output that has
\* no row in the output/tag link table becomes NULL.
clear_draft_status_from_orphan(lk, docs, output_detail_ids) ==
    [o \in OutputIds |->
        IF o \in output_detail_ids /\ {l \in lk : l[1] = o} = {} THEN "None"
        ELSE docs[o]]

\* ------------------------------------------------------------ request plumbing
Response(op, status, error) == [status |-> status, error |-> error]

\* request.url.path as its segments; ids are path segments too
IdSeg(n) == CASE n = 1 -> "1" [] n = 2 -> "2" [] n = 3 -> "3" [] OTHER -> "n"
TagsPath == <<"api", "v1", "dbrs", "tags">>
TagPath(t) == TagsPath \o <<IdSeg(t)>>
RecordsPath(t) == TagPath(t) \o <<"records">>
TagUsersPath(t) == TagPath(t) \o <<"users">>
SyncPath == <<"api", "v1", "output-details", "sync">>
DLsPath == <<"api", "v1", "distribution-lists">>
DLPath(d) == DLsPath \o <<IdSeg(d)>>
DownloadPath == <<"api", "v1", "download">>
PresignedUrlPath(o) == <<"api", "v1", "output-details", IdSeg(o), "get_presigned_url">>

\* "x in request.url.path" for a segment x, and for two consecutive segments
InPath(path, x) == \E i \in 1..Len(path) : path[i] = x
InPath2(path, x, y) == \E i \in 1..(Len(path) - 1) : path[i] = x /\ path[i + 1] = y

\* the methods the middleware passes through without auditing
audit_skipped(method) == method \in {"GET", "OPTIONS"}

\* the model the middleware snapshots, from the resource type in the path
audit_model(path) ==
    IF Len(path) >= 3 /\ path[3] = "distribution-lists" THEN "distribution_lists"
    ELSE IF Len(path) >= 4 /\ path[3] = "dbrs" /\ path[4] = "tags"
         THEN "database_release_tag"
    ELSE IF Len(path) >= 4 /\ path[3] = "output-details" /\ path[4] = "sync"
         THEN "database_release_tag"
    ELSE "none"

\* the download branch: taken before the model is looked at
audit_is_download(method, path) == InPath(path, "download") /\ method = "POST"

audit_action_from_method_only(method, path) ==
    CASE method = "POST" -> "CREATE"
      [] method \in {"PUT", "PATCH"} -> "UPDATE"
      [] method = "DELETE" -> "DELETE"
      [] OTHER -> "UNKNOWN"

\* action_map and its two overrides
audit_action(method, path) ==
    IF InPath(path, "records") THEN "UPDATE"
    ELSE IF InPath2(path, "output-details", "sync") THEN "SYNC"
    ELSE CASE method = "POST" -> "CREATE"
           [] method \in {"PUT", "PATCH"} -> "UPDATE"
           [] method = "DELETE" -> "DELETE"
           [] OTHER -> "UNKNOWN"

\* one audit entry; a DELETE entry has no object_property
Entry(action, object_type, key, property) ==
    [action |-> action, object_type |-> object_type, object_key |-> key,
     object_property |-> property]

\* what can fail in the audit layer after the handler has committed: the
\* fetch of the new snapshot, the insert of the entries (local mode), the
\* publish to the message bus (production mode), the reconciler at its first
\* statement, the reconciler at a statement after its first commit
Faults == {"none", "new_snapshot", "persist", "publish", "reconcile", "reconcile_late"}

reject_after_logging(op, status, error) ==
    /\ resp' = Response(op, status, error)
    /\ audit_logs' = {Entry("UNKNOWN", "none", 0, "None")}
    /\ UNCHANGED <<tags, nextTagId, dls, versions, links, ledger, now, served, docs_shared_as, fault, horizon, sessions, sync>>

\* A request refused by its handler: the middleware returns on a non-2xx
\* status, nothing is logged, nothing is reconciled.
Reject(op, status, error) ==
    /\ resp' = Response(op, status, error)
    /\ audit_logs' = {}
    /\ UNCHANGED <<tags, nextTagId, dls, versions, links, ledger, now, served, docs_shared_as, fault, horizon, sessions, sync>>

\* A 2xx response that changed nothing and whose snapshots are equal.
NoOp(op, status) ==
    /\ resp' = IF fault = "new_snapshot" THEN Response(op, 500, "internal_error")
               ELSE Response(op, status, "")
    /\ audit_logs' = {}
    /\ UNCHANGED <<tags, nextTagId, dls, versions, links, ledger, now, served, docs_shared_as, fault, horizon, sessions, sync>>

\* audit_middleware after a 2xx response: take the new snapshot, diff the
\* snapshots, save the entries and run the reconciler.  A DELETE emits one
\* entry whatever changed; the other actions one entry per changed field.
\* Only the reconciler runs inside try/except: an exception anywhere else
\* leaves the middleware and the server answers 500.
Audit(op, status, method, path, key, old, new, tg2, dl2, vs2) ==
    LET object_type == audit_model(path)
        action == audit_action(method, path)
        diffed == action \in {"CREATE", "UPDATE", "SYNC"}
    IN  /\ tags' = tg2
        /\ dls' = dl2
        /\ versions' = vs2
        /\ UNCHANGED <<links, served, fault, horizon, sync>>
        /\ \E batch \in {[action |-> action, object_type |-> object_type,
                          object_key |-> key, ts |-> now + 1,
                          fields |-> IF diffed THEN ChangedFields(old, new) ELSE {},
                          old |-> old, new |-> new]} :
             LET entries == IF diffed
                            THEN {Entry(action, object_type, key, f) : f \in batch.fields}
                            ELSE IF action = "DELETE"
                                 THEN {Entry(action, object_type, key, "None")}
                                 ELSE {}
                 raised == \/ fault = "new_snapshot" /\ diffed
                           \/ fault \in {"persist", "publish"} /\ entries # {}
             IN  IF raised
                 THEN /\ resp' = Response(op, 500, "internal_error")
                      /\ audit_logs' = {}
                      /\ UNCHANGED <<now, ledger>>
                 ELSE /\ resp' = Response(op, status, "")
                      /\ audit_logs' = entries
                      /\ IF audit_logs' # {}
                         THEN /\ now' = now + 1
                              /\ IF fault = "reconcile" THEN UNCHANGED ledger
                                 ELSE IF fault = "reconcile_late"
                                         /\ has_statement_after_commit(batch)
                                 THEN ledger' = process_audit_logs_rolled_back(
                                                    ledger, dls', batch)
                                 ELSE \E pick \in Picks(batch.new.output_details) :
                                         ledger' = process_audit_logs_for_shared_folder_metrics(
                                                       ledger, tags', dls', batch, pick)
                         ELSE UNCHANGED <<now, ledger>>

\* ------------------------------------------------------------ tag handlers
\* POST /api/v1/dbrs/tags/  (create_tag; audited as CREATE, the id is only
\* known from the response, so the old snapshot is empty)
CreateTag(role, tag_name, dbr, users, dl_ids, output_ids, identify_as_draft) ==
    /\ now < horizon
    /\ nextTagId <= MaxTags
    /\ users # {} \/ dl_ids # {}            \* DatabaseReleaseTagCreate.validate_lists
    /\ output_ids # {}                      \* output_ids: min_length 1
    /\ IF role = "reviewer" THEN Reject("create_tag", 403, "forbidden")
       ELSE IF dbr \notin DbrIds THEN Reject("create_tag", 400, "dbr_not_found")
       ELSE IF \E d \in dl_ids : ~dls[d].live THEN Reject("create_tag", 400, "dl_not_found")
       ELSE IF validate_dbr_tag_name_output_conflict(tags, versions, tag_name,
                   DbrSource(dbr), {Identifier(o) : o \in output_ids}, DbrNames(dbr),
                   FilePathsOf(versions, output_ids))
            THEN Reject("create_tag", 400, "tag_name_conflict")
       ELSE IF NameTaken(tags, nextTagId, tag_name, dbr)
            THEN \* IntegrityError at flush: rolled back, the sequence value is spent
                 /\ resp' = Response("create_tag", 409, "tag_name_exists")
                 /\ audit_logs' = {}
                 /\ nextTagId' = nextTagId + 1
                 /\ UNCHANGED <<tags, dls, versions, links, ledger, now, served, docs_shared_as, fault, horizon, sessions, sync>>
       ELSE LET id == nextTagId
                tg2 == [tags EXCEPT ![id] = [live |-> TRUE, tag_name |-> tag_name,
                            users |-> users, dls |-> dl_ids, dbr |-> dbr,
                            source_id |-> DbrSource(dbr)]]
                vs2 == update_output_details_hstore_tags(versions,
                            LatestRows(versions, output_ids), id, tag_name)
            IN  /\ Audit("create_tag", 200, "POST", TagsPath, id,
                         AbsentSnap, TagSnapshot(tg2, vs2, id), tg2, dls, vs2)
                /\ nextTagId' = nextTagId + 1
                /\ UNCHANGED sessions
                /\ docs_shared_as' =
                      IF SourceName(DbrSource(dbr)) = "DOCS"
                      THEN update_output_draft_status(docs_shared_as, output_ids,
                                                      identify_as_draft, FALSE)
                      ELSE docs_shared_as

\* PUT /api/v1/dbrs/tags/{tag_id}  (update_tag; audited as UPDATE).  tag_name
\* is required by the schema; users and distribution_list_ids are applied
\* only when the request sets them.
UpdateTag(role, t, tag_name, set_users, users, set_dls, dl_ids) ==
    /\ now < horizon
    /\ (set_users /\ users # {}) \/ (set_dls /\ dl_ids # {})   \* validate_lists
    /\ IF role = "reviewer" THEN Reject("update_tag", 403, "forbidden")
       ELSE IF ~tags[t].live THEN Reject("update_tag", 404, "tag_not_found")
       ELSE IF set_dls /\ \E d \in dl_ids : ~dls[d].live
            THEN Reject("update_tag", 400, "dl_not_found")
       ELSE IF NameTaken(tags, t, tag_name, tags[t].dbr)
            THEN Reject("update_tag", 409, "tag_name_exists")
       ELSE LET tg2 == [tags EXCEPT ![t].tag_name = tag_name,
                                    ![t].users = IF set_users THEN users ELSE @,
                                    ![t].dls = IF set_dls THEN dl_ids ELSE @]
                vs2 == IF tag_name # tags[t].tag_name
                       THEN update_tag_name_in_output_versions(versions, t, tag_name)
                       ELSE versions
            IN  /\ Audit("update_tag", 200, "PUT", TagPath(t), t,
                         TagSnapshot(tags, versions, t), TagSnapshot(tg2, vs2, t),
                         tg2, dls, vs2)
                /\ UNCHANGED <<nextTagId, docs_shared_as, sessions>>

\* DELETE /api/v1/dbrs/tags/{tag_id}  (delete_tag; audited as DELETE)
DeleteTag(role, t) ==
    /\ now < horizon
    /\ IF role = "reviewer" THEN Reject("delete_tag", 403, "forbidden")
       ELSE IF ~tags[t].live THEN Reject("delete_tag", 404, "tag_not_found")
       ELSE LET vs2 == remove_output_details_hstore_tags(versions,
                           RowsWithKey(versions, t), t)
                tg2 == [tags EXCEPT ![t] = NoTag]
            IN  /\ Audit("delete_tag", 200, "DELETE", TagPath(t), t,
                         TagSnapshot(tags, versions, t), AbsentSnap, tg2, dls, vs2)
                /\ UNCHANGED <<nextTagId, docs_shared_as, sessions>>

\* POST /api/v1/dbrs/tags/{tag_id}/records  (add_record; "records" in the
\* path forces the audit action UPDATE)
AddRecord(role, t, record_ids, identify_as_draft) ==
    /\ now < horizon
    /\ record_ids # {}                       \* record_ids: min_length 1
    /\ IF role = "reviewer" THEN Reject("add_record", 403, "forbidden")
       ELSE IF ~tags[t].live THEN Reject("add_record", 404, "tag_not_found")
       ELSE LET valid_ids == record_ids \cap OutputIds
                new_records == {o \in valid_ids :
                                  RowsWithKey(versions, t) \cap RowsOf(versions, {o}) = {}}
            IN  IF new_records = {} THEN NoOp("add_record", 200)
                ELSE IF validate_dbr_tag_name_output_conflict(tags, versions,
                            tags[t].tag_name, tags[t].source_id,
                            {Identifier(o) : o \in new_records}, DbrNames(tags[t].dbr),
                            FilePathsOf(versions, valid_ids))
                     THEN Reject("add_record", 400, "tag_name_conflict")
                ELSE LET vs2 == update_output_details_hstore_tags(versions,
                                    LatestRows(versions, valid_ids), t, tags[t].tag_name)
                     IN  /\ Audit("add_record", 200, "POST", RecordsPath(t), t,
                                  TagSnapshot(tags, versions, t),
                                  TagSnapshot(tags, vs2, t), tags, dls, vs2)
                         /\ UNCHANGED <<nextTagId, sessions>>
                         /\ docs_shared_as' =
                               IF SourceName(tags[t].source_id) = "DOCS"
                               THEN update_output_draft_status(docs_shared_as,
                                        new_records, identify_as_draft, FALSE)
                               ELSE docs_shared_as

\* The session's flush at commit: an UPDATE of the tags column of every loaded
\* row whose map the handler changed, with the whole map the session holds.
\* This flush writes only the keys the handler inserted.
flush_only_new_keys(db, loaded, local) ==
    [o \in OutputIds |->
        [i \in DOMAIN db[o] |->
            IF i \in DOMAIN loaded[o] /\ local[o][i].tags # loaded[o][i].tags
            THEN [db[o][i] EXCEPT !.tags =
                     [k \in DOMAIN local[o][i].tags \ DOMAIN loaded[o][i].tags |->
                         local[o][i].tags[k]]]
            ELSE db[o][i]]]

flush_modified_tags(db, loaded, local) ==
    [o \in OutputIds |->
        [i \in DOMAIN db[o] |->
            IF i \in DOMAIN loaded[o] /\ local[o][i].tags # loaded[o][i].tags
            THEN [db[o][i] EXCEPT !.tags = local[o][i].tags]
            ELSE db[o][i]]]

\* add_record up to its last read: the middleware's snapshot, the tag row, the
\* versions of the records and the checks on them.  Request r then holds what
\* its session loaded.
add_record_read(r, role, t, record_ids, identify_as_draft) ==
    /\ sessions[r].pc = "idle"
    /\ now < horizon
    /\ record_ids # {}
    /\ IF role = "reviewer" THEN Reject("add_record", 403, "forbidden")
       ELSE IF ~tags[t].live THEN Reject("add_record", 404, "tag_not_found")
       ELSE LET valid_ids == record_ids \cap OutputIds
                new_records == {o \in valid_ids :
                                  RowsWithKey(versions, t) \cap RowsOf(versions, {o}) = {}}
            IN  IF new_records = {} THEN NoOp("add_record", 200)
                ELSE IF validate_dbr_tag_name_output_conflict(tags, versions,
                            tags[t].tag_name, tags[t].source_id,
                            {Identifier(o) : o \in new_records}, DbrNames(tags[t].dbr),
                            FilePathsOf(versions, valid_ids))
                     THEN Reject("add_record", 400, "tag_name_conflict")
                ELSE /\ sessions' = [sessions EXCEPT ![r] =
                            [pc |-> "read", tag_id |-> t, tag_name |-> tags[t].tag_name,
                             valid_ids |-> valid_ids, new_records |-> new_records,
                             draft |-> identify_as_draft, loaded |-> versions,
                             old |-> TagSnapshot(tags, versions, t)]]
                     /\ UNCHANGED <<tags, nextTagId, dls, versions, links, ledger, now,
                                    served, docs_shared_as, audit_logs, fault, horizon, sync, resp>>

\* add_record from its write to the response: the key goes on the latest
\* versions the session loaded, the commit flushes them, and the middleware
\* logs the difference to the snapshot it took before the handler ran.
add_record_commit(r) ==
    /\ sessions[r].pc = "read"
    /\ LET s == sessions[r]
           local == update_output_details_hstore_tags(s.loaded,
                        LatestRows(s.loaded, s.valid_ids), s.tag_id, s.tag_name)
           vs2 == flush_modified_tags(versions, s.loaded, local)
       IN  /\ Audit("add_record", 200, "POST", RecordsPath(s.tag_id), s.tag_id,
                    s.old, TagSnapshot(tags, vs2, s.tag_id), tags, dls, vs2)
           /\ UNCHANGED nextTagId
           /\ docs_shared_as' =
                 IF SourceName(tags[s.tag_id].source_id) = "DOCS"
                 THEN update_output_draft_status(docs_shared_as, s.new_records,
                                                 s.draft, FALSE)
                 ELSE docs_shared_as
           /\ sessions' = [sessions EXCEPT ![r].pc = "done"]

\* DELETE /api/v1/dbrs/tags/{tag_id}/records  (remove_record; audited as UPDATE)
RemoveRecord(role, t, record_ids) ==
    /\ now < horizon
    /\ record_ids # {}
    /\ IF role = "reviewer" THEN Reject("remove_record", 403, "forbidden")
       ELSE IF ~tags[t].live THEN Reject("remove_record", 404, "tag_not_found")
       ELSE LET valid_ids == record_ids \cap OutputIds
                odv_list == RowsOf(versions, valid_ids)
            IN  IF valid_ids = {} THEN Reject("remove_record", 400, "no_matching_records")
                ELSE IF odv_list = {} THEN Reject("remove_record", 404, "no_versions")
                ELSE IF odv_list \cap RowsWithKey(versions, t) = {}
                     THEN Reject("remove_record", 400, "not_associated")
                ELSE LET vs2 == remove_output_details_hstore_tags(versions, odv_list, t)
                     IN  /\ Audit("remove_record", 200, "DELETE", RecordsPath(t), t,
                                  TagSnapshot(tags, versions, t),
                                  TagSnapshot(tags, vs2, t), tags, dls, vs2)
                         /\ UNCHANGED <<nextTagId, sessions>>
                         /\ docs_shared_as' = clear_draft_status_from_orphan(
                                                  links, docs_shared_as, valid_ids)

\* remove_record up to its response: the middleware's snapshot before the
\* handler, then the handler and its commit.  Request r holds the snapshot
\* until the middleware resumes.
remove_record_handle(r, role, t, record_ids) ==
    /\ sessions[r].pc = "idle"
    /\ now < horizon
    /\ record_ids # {}
    /\ IF role = "reviewer" THEN Reject("remove_record", 403, "forbidden")
       ELSE IF ~tags[t].live THEN Reject("remove_record", 404, "tag_not_found")
       ELSE LET valid_ids == record_ids \cap OutputIds
                odv_list == RowsOf(versions, valid_ids)
            IN  IF valid_ids = {} THEN Reject("remove_record", 400, "no_matching_records")
                ELSE IF odv_list = {} THEN Reject("remove_record", 404, "no_versions")
                ELSE IF odv_list \cap RowsWithKey(versions, t) = {}
                     THEN Reject("remove_record", 400, "not_associated")
                ELSE /\ versions' = remove_output_details_hstore_tags(versions, odv_list, t)
                     /\ docs_shared_as' = clear_draft_status_from_orphan(
                                              links, docs_shared_as, valid_ids)
                     /\ sessions' = [sessions EXCEPT ![r] =
                            [IdleSession EXCEPT !.pc = "handled", !.tag_id = t,
                                !.valid_ids = valid_ids,
                                !.old = TagSnapshot(tags, versions, t)]]
                     /\ UNCHANGED <<tags, nextTagId, dls, links, ledger, now, served,
                                    audit_logs, fault, horizon, sync, resp>>

\* remove_record after its response: the middleware takes the new snapshot,
\* logs the difference to the snapshot it holds and runs the reconciler.
remove_record_log(r) ==
    /\ sessions[r].pc = "handled"
    /\ LET s == sessions[r]
       IN  /\ Audit("remove_record", 200, "DELETE", RecordsPath(s.tag_id), s.tag_id,
                    s.old, TagSnapshot(tags, versions, s.tag_id), tags, dls, versions)
           /\ UNCHANGED <<nextTagId, docs_shared_as>>
           /\ sessions' = [sessions EXCEPT ![r].pc = "done"]

\* POST /api/v1/dbrs/tags/{tag_id}/users  (add_users_to_tag; a POST without
\* "records" in the path, so the batch is a CREATE batch)
AddUsersToTag(role, t, usernames) ==
    /\ now < horizon
    /\ IF role = "reviewer" THEN Reject("add_users", 403, "forbidden")
       ELSE IF ~tags[t].live THEN Reject("add_users", 404, "tag_not_found")
       ELSE IF usernames = {} THEN Reject("add_users", 400, "no_usernames")
       ELSE IF usernames \ tags[t].users = {} THEN NoOp("add_users", 200)
       ELSE LET tg2 == [tags EXCEPT ![t].users = @ \cup usernames]
            IN  /\ Audit("add_users", 200, "POST", TagUsersPath(t), t,
                         TagSnapshot(tags, versions, t), TagSnapshot(tg2, versions, t),
                         tg2, dls, versions)
                /\ UNCHANGED <<nextTagId, docs_shared_as, sessions>>

\* DELETE /api/v1/dbrs/tags/{tag_id}/users  (remove_users_from_tag; the
\* method makes it a DELETE batch, also when no user matched)
RemoveUsersFromTag(role, t, usernames) ==
    /\ now < horizon
    /\ IF role = "reviewer" THEN Reject("remove_users", 403, "forbidden")
       ELSE IF ~tags[t].live THEN Reject("remove_users", 404, "tag_not_found")
       ELSE IF usernames = {} THEN Reject("remove_users", 400, "no_usernames")
       ELSE LET tg2 == [tags EXCEPT ![t].users = @ \ usernames]
            IN  /\ Audit("remove_users", 200, "DELETE", TagUsersPath(t), t,
                         TagSnapshot(tags, versions, t), AbsentSnap, tg2, dls, versions)
                /\ UNCHANGED <<nextTagId, docs_shared_as, sessions>>

\* POST /api/v1/output-details/sync  (sync_output_details; audited as SYNC on
\* the tag named in the payload).  The key is dropped from the versions that
\* carry it and written on the latest versions with the literal "tag_name".
SyncOutputDetails(t, output_detail_ids) ==
    /\ now < horizon
    /\ LET carrying == IF output_detail_ids # {}
                       THEN RowsWithKey(versions, t) \cap RowsOf(versions, output_detail_ids)
                       ELSE RowsWithKey(versions, t)
           ids == IF output_detail_ids # {} THEN output_detail_ids
                  ELSE {p[1] : p \in carrying}
           vs1 == remove_output_details_hstore_tags(versions, carrying, t)
           vs2 == update_output_details_hstore_tags(vs1, LatestRows(vs1, ids), t, "tag_name")
       IN  /\ Audit("sync", 202, "POST", SyncPath, t,
                    TagSnapshot(tags, versions, t), TagSnapshot(tags, vs2, t),
                    tags, dls, vs2)
           /\ UNCHANGED <<nextTagId, docs_shared_as, sessions>>

\* ------------------------------------------------ distribution-list handlers
\* A gate that also lets the members of the list through.
verify_permission_of_members(dl, username) ==
    dl.created_by = username \/ username \in dl.co_owners \/ username \in dl.users

\* verify_permission: the creator or a co-owner
verify_permission(dl, username) ==
    dl.created_by = username \/ username \in dl.co_owners

\* _distributionlist_name_study_uc, as the handlers test it (one study)
DLNameTaken(dl, d, name) == \E x \in DLIds \ {d} : dl[x].live /\ dl[x].name = name

\* POST /api/v1/distribution-lists/  (create_distribution_list).  users is
\* a list of at least one name or null; null (the empty set here) fails the
\* NOT NULL column at commit.
CreateDL(actor, d, name, co_owners, users) ==
    /\ now < horizon
    /\ ~dls[d].live
    /\ co_owners # {}                        \* co_owners: min_length 1
    /\ LET dl2 == [dls EXCEPT ![d] = [live |-> TRUE, name |-> name, users |-> users,
                                      co_owners |-> co_owners, created_by |-> actor]]
       IN  IF DLNameTaken(dls, d, name) THEN Reject("create_dl", 409, "name_exists")
           ELSE IF co_owners \cap users # {} THEN Reject("create_dl", 400, "owner_is_member")
           ELSE IF users = {} THEN Reject("create_dl", 500, "users_is_null")
           ELSE /\ Audit("create_dl", 200, "POST", DLsPath, d,
                         AbsentSnap, DLSnapshot(dl2, d), tags, dl2, versions)
                /\ UNCHANGED <<nextTagId, docs_shared_as, sessions>>

\* PUT /api/v1/distribution-lists/{dl_id}  (update_distribution_list); the
\* schema requires name, co_owners and users
UpdateDL(actor, d, name, co_owners, users) ==
    /\ now < horizon
    /\ co_owners # {}
    /\ IF ~dls[d].live THEN Reject("update_dl", 404, "dl_not_found")
       ELSE IF ~verify_permission(dls[d], actor) THEN Reject("update_dl", 403, "forbidden")
       ELSE IF DLNameTaken(dls, d, name) THEN Reject("update_dl", 409, "name_exists")
       ELSE IF co_owners \cap users # {}
            THEN Reject("update_dl", 400, "owner_is_member")
       ELSE IF users = {} THEN Reject("update_dl", 500, "users_is_null")
       ELSE LET dl2 == [dls EXCEPT ![d].name = name, ![d].users = users,
                                   ![d].co_owners = co_owners]
            IN  /\ Audit("update_dl", 200, "PUT", DLPath(d), d,
                         DLSnapshot(dls, d), DLSnapshot(dl2, d), tags, dl2, versions)
                /\ UNCHANGED <<nextTagId, docs_shared_as, sessions>>

\* DELETE /api/v1/distribution-lists/{dl_id}  (delete_distribution_list); the
\* rows linking the list to tags go with it.
DeleteDL(actor, d) ==
    /\ now < horizon
    /\ IF ~dls[d].live THEN Reject("delete_dl", 404, "dl_not_found")
       ELSE IF ~verify_permission(dls[d], actor) THEN Reject("delete_dl", 403, "forbidden")
       ELSE LET dl2 == [dls EXCEPT ![d] = NoDL]
                tg2 == [t \in TagIds |-> [tags[t] EXCEPT !.dls = @ \ {d}]]
            IN  /\ Audit("delete_dl", 200, "DELETE", DLPath(d), d,
                         DLSnapshot(dls, d), AbsentSnap, tg2, dl2, versions)
                /\ UNCHANGED <<nextTagId, docs_shared_as, sessions>>

\* --------------------------------------------------------- version promotion
\* promoteVersion: the prior latest version loses is_latest, the new version
\* is latest and starts with an empty tag map.
PromoteVersion(o) ==
    /\ Len(versions[o]) < MaxVersions
    /\ LET n == Len(versions[o])
           demoted == [i \in 1..n |-> [versions[o][i] EXCEPT !.is_latest = FALSE]]
           newest == [major |-> versions[o][n].major + 1, minor |-> 0,
                      is_latest |-> TRUE, tags |-> NoTags]
       IN  versions' = [versions EXCEPT ![o] = Append(demoted, newest)]
    /\ UNCHANGED <<tags, nextTagId, dls, links, ledger, now, served, docs_shared_as, audit_logs, fault, horizon, sessions, sync, resp>>

\* ------------------------------------------------------------ access resolver
\* get_users_for_output_ids: per output, the users of the tags related to it
\* through the output/tag link table.
get_users_for_output_ids(lk, tg, dl, output_ids) ==
    [o \in output_ids \cap OutputIds |->
        UNION {get_all_users(tg, dl, t) : t \in {x \in TagIds : <<o, x>> \in lk /\ tg[x].live}}]

\* get_accessible_output_ids_for_reviewer
get_accessible_output_ids_for_reviewer(lk, tg, dl, username, output_ids) ==
    LET output_to_users == get_users_for_output_ids(lk, tg, dl, output_ids)
    IN  {o \in DOMAIN output_to_users : username \in output_to_users[o]}

\* get_reviewer_accessible_output_ids_query: over every output that has a tag
get_reviewer_accessible_output_ids_query(lk, tg, dl, username) ==
    get_accessible_output_ids_for_reviewer(lk, tg, dl, username,
        {o \in OutputIds : \E t \in TagIds : <<o, t>> \in lk /\ tg[t].live})

\* The 403 details.  A single-file denial names the file's identifier, or
\* None when the id is no output (scalar_one_or_none); the bulk one is generic.
NoAccessToFile(identifier) ==
    CASE identifier = "OUT-1" -> "no_access_to_file:OUT-1"
      [] identifier = "OUT-2" -> "no_access_to_file:OUT-2"
      [] OTHER -> "no_access_to_file:None"
NoAccessToFiles == "no_access_to_one_or_more_files"

\* A gate that lets a request through as soon as one of its ids is accessible.
authorize_when_any_id_accessible(lk, tg, dl, username, file_ids) ==
    LET accessible ==
            get_accessible_output_ids_for_reviewer(lk, tg, dl, username, Range(file_ids))
    IN  IF file_ids = << >> \/ accessible # {} THEN ""
        ELSE IF Len(file_ids) = 1 THEN NoAccessToFile("None") ELSE NoAccessToFiles

\* A gate whose bulk denial names a denied file like the single one does.
authorize_naming_a_denied_file(lk, tg, dl, username, file_ids) ==
    LET denied_output_ids ==
            Range(file_ids) \ get_accessible_output_ids_for_reviewer(
                                  lk, tg, dl, username, Range(file_ids))
        denied_id == CHOOSE d \in denied_output_ids : TRUE
    IN  IF denied_output_ids = {} THEN ""
        ELSE NoAccessToFile(IF denied_id \in OutputIds THEN Identifier(denied_id)
                            ELSE "None")

\* authorize_reviewer: "" when every id is accessible, else the detail of the
\* 403 raised.  file_ids is the request's list: its length decides between
\* the message naming the file and the generic one.
authorize_reviewer(lk, tg, dl, username, file_ids) ==
    LET denied_output_ids ==
            Range(file_ids) \ get_accessible_output_ids_for_reviewer(
                                  lk, tg, dl, username, Range(file_ids))
        denied_id == CHOOSE d \in denied_output_ids : TRUE
    IN  IF denied_output_ids = {} THEN ""
        ELSE IF Len(file_ids) = 1
             THEN NoAccessToFile(IF denied_id \in OutputIds THEN Identifier(denied_id)
                                 ELSE "None")
             ELSE NoAccessToFiles

\* ---------------------------------------------------- lustre_sync_module
\* A version string "MAJ.MIN" is the pair <<MAJ, MIN>>; NoVersion is None.
NoVersion == <<>>
\* version_key: the string split at the dot, the parts read as integers
version_key(version_str) == <<version_str[1], version_str[2]>>
VersionBelow(a, b) ==
    \/ version_key(a)[1] < version_key(b)[1]
    \/ version_key(a)[1] = version_key(b)[1] /\ version_key(a)[2] < version_key(b)[2]

\* the positions of a segment in a path
IndexOf(path, seg) == {i \in DOMAIN path : path[i] = seg}
Min(S) == CHOOSE x \in S : \A y \in S : x <= y

\* resolve_repo_versions_path: the path must hold "pharma" and "output" and a
\* pillar segment before "pharma"; the result is REPO/pharma/.../output/.versions,
\* None (<<>>) when it cannot be resolved.
resolve_repo_versions_path(adr_filepath) ==
    IF IndexOf(adr_filepath, "pharma") = {} \/ IndexOf(adr_filepath, "output") = {}
    THEN <<>>
    ELSE LET idx_pharma == Min(IndexOf(adr_filepath, "pharma"))
             idx_output == Min(IndexOf(adr_filepath, "output"))
         IN  IF \A i \in 1..(idx_pharma - 1) : adr_filepath[i] \notin {"PROD", "PREPROD"}
             THEN <<>>
             ELSE <<"REPO">> \o SubSeq(adr_filepath, idx_pharma, idx_output)
                     \o <<".versions">>

\* find_latest_version_file: of the files listed under the pillar directories,
\* those named original_filename_@@MAJ.MIN; the one with the highest version,
\* None (<<>>) when the directory is missing or holds no such file.
find_latest_version_file(listing, original_filename) ==
    LET candidates == {f \in listing : f.orig = original_filename /\ f.ver # NoVersion}
    IN  IF candidates = {} THEN <<>>
        ELSE <<CHOOSE f \in candidates :
                   \A g \in candidates : ~VersionBelow(f.ver, g.ver)>>

\* one attempt of lustre_copy_to_s3: the file is streamed into the object; a
\* read that fails or times out leaves what was streamed, an upload that
\* raises leaves the object as it was.
UploadOutcomes == {"ok", "read_failed", "raised"}
upload_attempt(object, ver, outcome) ==
    CASE outcome = "ok" -> [ver |-> ver, complete |-> TRUE]
      [] outcome = "read_failed" -> [ver |-> ver, complete |-> FALSE]
      [] OTHER -> object

\* lustre_copy_to_s3: retries + 1 attempts, the first success returns.
retries == 1
RECURSIVE copy_attempts(_, _, _, _)
copy_attempts(object, ver, outcomes, attempt) ==
    LET after == upload_attempt(object, ver, outcomes[attempt])
    IN  IF outcomes[attempt] = "ok" THEN [success |-> TRUE, object |-> after]
        ELSE IF attempt < retries + 1 THEN copy_attempts(after, ver, outcomes, attempt + 1)
        ELSE [success |-> FALSE, object |-> after]

lustre_copy_to_s3(object, ver, outcomes) == copy_attempts(object, ver, outcomes, 1)

\* update_output_detail_record that returns after its last failed attempt
\* without the rollback: the session keeps the new values.
update_output_detail_record_without_rollback(od, new_version, outcomes) ==
    [ok |-> \E i \in DOMAIN outcomes : outcomes[i],
     od |-> [od EXCEPT !.space_version = new_version, !.orca_version = new_version,
                       !.is_out_of_sync = FALSE]]

\* update_output_detail_record: up to max_retries attempts to set the version
\* fields and commit; every failed attempt is rolled back.
max_retries == 3
update_output_detail_record(od, new_version, outcomes) ==
    IF \E i \in 1..max_retries : outcomes[i]
    THEN [ok |-> TRUE,
          od |-> [od EXCEPT !.space_version = new_version, !.orca_version = new_version,
                            !.is_out_of_sync = FALSE]]
    ELSE [ok |-> FALSE, od |-> od]

\* output_details rows as the sync reads them, and the run's result dict
NoOutputDetail == [present |-> FALSE, adr_filepath |-> <<>>, file_path |-> <<>>,
                   space_version |-> NoVersion, orca_version |-> NoVersion,
                   is_out_of_sync |-> FALSE]
NoObject == [ver |-> NoVersion, complete |-> FALSE]
NoResult == [id |-> 0, success |-> FALSE, message |-> "", old_version |-> NoVersion,
             new_version |-> NoVersion]
IdleSync == [od |-> [o \in OutputIds |-> NoOutputDetail], listing |-> {},
             s3 |-> [o \in OutputIds |-> NoObject], pc |-> "idle", chosen |-> <<>>,
             result |-> NoResult]

\* update_latest_version_to_s3, steps 1 to 3 and the file_path check: fetch
\* the record, resolve the .versions path, find the latest version file.
sync_lookup(o) ==
    /\ sync.pc \in {"idle", "done"}
    /\ LET od == sync.od[o]
           result == [NoResult EXCEPT !.id = o]
           found == find_latest_version_file(sync.listing,
                                             od.adr_filepath[Len(od.adr_filepath)])
           fail(r, message) == [sync EXCEPT !.pc = "done", !.chosen = <<>>,
                                            !.result = [r EXCEPT !.message = message]]
       IN  sync' =
             IF ~od.present THEN fail(result, "not found")
             ELSE LET r1 == [result EXCEPT !.old_version = od.space_version]
                  IN  IF od.adr_filepath = <<>> THEN fail(r1, "No adr_filepath")
                      ELSE IF resolve_repo_versions_path(od.adr_filepath) = <<>>
                           THEN fail(r1, "Could not resolve REPO .versions path")
                      ELSE IF found = <<>> THEN fail(r1, "No versioned files found")
                      ELSE LET r2 == [r1 EXCEPT !.new_version = found[1].ver]
                           IN  IF od.file_path = <<>>
                               THEN fail(r2, "OutputDetail.file_path is empty")
                               ELSE [sync EXCEPT !.pc = "upload", !.chosen = found,
                                                 !.result = r2]
    /\ UNCHANGED <<tags, nextTagId, dls, versions, links, ledger, now, served,
                   docs_shared_as, audit_logs, fault, horizon, sessions, resp>>

\* step 4: copy the chosen file to the bucket under the record's file_path
sync_upload(outcomes) ==
    /\ sync.pc = "upload"
    /\ LET o == sync.result.id
           copy == lustre_copy_to_s3(sync.s3[o], sync.chosen[1].ver, outcomes)
       IN  sync' = IF copy.success
                   THEN [sync EXCEPT !.s3[o] = copy.object, !.pc = "record"]
                   ELSE [sync EXCEPT !.s3[o] = copy.object, !.pc = "done",
                                     !.result.message = "upload failed"]
    /\ UNCHANGED <<tags, nextTagId, dls, versions, links, ledger, now, served,
                   docs_shared_as, audit_logs, fault, horizon, sessions, resp>>

\* step 5: update the record and report
sync_record(outcomes) ==
    /\ sync.pc = "record"
    /\ LET o == sync.result.id
           update == update_output_detail_record(sync.od[o], sync.chosen[1].ver, outcomes)
       IN  sync' = IF update.ok
                   THEN [sync EXCEPT !.od[o] = update.od, !.pc = "done",
                                     !.result.success = TRUE,
                                     !.result.message = "Successfully synced"]
                   ELSE [sync EXCEPT !.od[o] = update.od, !.pc = "done",
                                     !.result.message = "DB update failed after retries"]
    /\ UNCHANGED <<tags, nextTagId, dls, versions, links, ledger, now, served,
                   docs_shared_as, audit_logs, fault, horizon, sessions, resp>>

\* ------------------------------------------------------------- download job
\* file_path.lower().split('.')[-1] of the file names of the catalogue
Ext(file_name) == IF file_name = "other.xlsx" THEN "xlsx" ELSE "pdf"
FileExt(o) == Ext(FilePath(o)[Len(FilePath(o))])

\* the extensions with a watermark handler
EXTENSION_HANDLERS ==
    {"pdf", "docx", "doc", "jpg", "jpeg", "png", "rtf", "csv", "svg", "pptx", "ppt"}

\* process_preprod_file: the path of the output, or None when watermarking
\* is on and the extension has no handler
process_preprod_file(o, is_watermark_enabled) ==
    IF is_watermark_enabled
    THEN IF FileExt(o) \in EXTENSION_HANDLERS THEN "path" ELSE "None"
    ELSE "path"

\* process_prod_file: a copy
process_prod_file(o) == "path"

\* process_single_file, the unit of work of one file: the path of its output,
\* None, or an exception ("raise"); a source that is none of the three falls
\* through and returns None.  failing: the files whose copy or watermark
\* handler raises.
process_single_file(o, source, docs, is_watermark_enabled, failing) ==
    LET result ==
            IF source = "PREPROD" THEN process_preprod_file(o, is_watermark_enabled)
            ELSE IF source = "PROD" THEN process_prod_file(o)
            ELSE IF source = "DOCS"
                 THEN IF docs \in {"PROD", "None"} THEN process_prod_file(o)
                      ELSE IF docs = "PREPROD"
                           THEN process_preprod_file(o, is_watermark_enabled)
                           ELSE "raise"
            ELSE "None"
    IN  IF result = "path" /\ o \in failing THEN "raise" ELSE result

\* zip_and_cleanup, the chord callback: the results that are None are dropped,
\* no result left is an error, one is returned as it is, more are zipped
zip_and_cleanup(processed_files) ==
    LET valid_files == {o \in DOMAIN processed_files : processed_files[o] = "path"}
    IN  IF valid_files = {}
        THEN [successful |-> FALSE, files |-> {}, zipped |-> FALSE]
        ELSE [successful |-> TRUE, files |-> valid_files,
              zipped |-> Cardinality(valid_files) > 1]

\* add_watermark_batch: one unit per output row found, joined by the chord;
\* the callback does not run when a unit raised.  A reviewer's files are
\* processed under their own source_name, the others under the request's.
add_watermark_batch(file_ids, source, docs, is_reviewer, is_watermark_enabled, failing) ==
    LET processed_files ==
            [o \in Range(file_ids) \cap OutputIds |->
                process_single_file(o, IF is_reviewer THEN OutputSourceName(o) ELSE source,
                                    docs[o], is_watermark_enabled, failing)]
    IN  IF \E o \in DOMAIN processed_files : processed_files[o] = "raise"
        THEN [successful |-> FALSE, files |-> {}, zipped |-> FALSE]
        ELSE zip_and_cleanup(processed_files)

\* POST /api/v1/download/  (download): the reviewer check, then the watermark
\* job over the files.  After a 2xx response the middleware emits one
\* DOWNLOAD entry per file that exists.
Download(role, username, file_ids, source, is_watermark_enabled, failing) ==
    LET verdict == authorize_reviewer(links, tags, dls, username, file_ids)
        entries == IF audit_is_download("POST", DownloadPath)
                   THEN {Entry("DOWNLOAD", "DBR_output_details", f, "file_path") :
                            f \in Range(file_ids) \cap OutputIds}
                   ELSE {}
        job == add_watermark_batch(file_ids, source, docs_shared_as, role = "reviewer",
                                   is_watermark_enabled, failing)
        refuse(status, error) ==
            /\ resp' = Response("download", status, error)
            /\ audit_logs' = {}
            /\ UNCHANGED served
    IN  /\ IF role = "reviewer" /\ verdict # "" THEN refuse(403, verdict)
           ELSE IF file_ids = << >> THEN refuse(400, "no_files")
           ELSE IF ~job.successful THEN refuse(500, "task_failed")
           ELSE IF entries # {} /\ fault \in {"persist", "publish"}
           THEN refuse(500, "internal_error")
           ELSE /\ resp' = Response("download", 200, "")
                /\ audit_logs' = entries
                /\ served' = served \cup {<<username, f>> : f \in job.files}
        /\ UNCHANGED <<tags, nextTagId, dls, versions, links, ledger, now, docs_shared_as, fault, horizon, sessions, sync>>

\* GET /api/v1/output-details/{id}/get_presigned_url  (get_presigned_url); a
\* GET passes the middleware unaudited
GetPresignedUrl(role, username, output_detail_id) ==
    LET verdict == authorize_reviewer(links, tags, dls, username, <<output_detail_id>>)
    IN  /\ IF role = "reviewer" /\ verdict # ""
           THEN /\ resp' = Response("presigned_url", 403, verdict)
                /\ UNCHANGED served
           ELSE IF output_detail_id \notin OutputIds
           THEN /\ resp' = Response("presigned_url", 404, "output_not_found")
                /\ UNCHANGED served
           ELSE /\ resp' = Response("presigned_url", 200, "")
                /\ served' = served \cup {<<username, output_detail_id>>}
        /\ audit_logs' = IF audit_skipped("GET") THEN {} ELSE audit_logs
        /\ UNCHANGED <<tags, nextTagId, dls, versions, links, ledger, now, docs_shared_as, fault, horizon, sessions, sync>>

Init ==
    /\ tags = [t \in TagIds |-> NoTag]
    /\ nextTagId = 1
    /\ dls = [d \in DLIds |-> NoDL]
    /\ versions = [o \in OutputIds |->
                     << [major |-> 1, minor |-> 0, is_latest |-> TRUE, tags |-> NoTags] >>]
    /\ links = {}
    /\ ledger = EmptyBag
    /\ now = 0
    /\ served = {}
    /\ docs_shared_as = [o \in OutputIds |-> "None"]
    /\ audit_logs = {}
    /\ fault = "none"
    /\ horizon = MaxTime
    /\ sessions = [r \in Requests |-> IdleSession]
    /\ sync = IdleSync
    /\ resp = [status |-> 0, error |-> ""]

\* ---------------------------------------------------------- the request mix
Owner == "carol"
NonEmpty(S) == SUBSET S \ {{}}
LiveTags == {t \in TagIds : tags[t].live}
LiveDLs == {d \in DLIds : dls[d].live}

\* Spec: the ledger under one tag.  A programmer creates the tag over outputs
\* 1 and 2, changes its direct users and lists, its records and the list's
\* members; output 1 gets a new version.
LedgerOutputs == {1, 2}

Next ==
    \/ \E us \in SUBSET Users, ds \in SUBSET DLIds, os \in NonEmpty(LedgerOutputs) :
          nextTagId = 1 /\ CreateTag("programmer", "ADR_2024", 1, us, ds, os, FALSE)
    \/ \E t \in LiveTags, su \in BOOLEAN, us \in SUBSET Users, sd \in BOOLEAN,
          ds \in SUBSET DLIds :
          UpdateTag("programmer", t, "ADR_2024", su, us, sd, ds)
    \/ \E t \in LiveTags : DeleteTag("programmer", t)
    \/ \E t \in LiveTags, os \in NonEmpty(LedgerOutputs) : AddRecord("programmer", t, os, FALSE)
    \/ \E t \in LiveTags, os \in NonEmpty(LedgerOutputs) : RemoveRecord("programmer", t, os)
    \/ \E t \in LiveTags, us \in NonEmpty(Users) : AddUsersToTag("programmer", t, us)
    \/ \E t \in LiveTags, us \in NonEmpty(Users) : RemoveUsersFromTag("programmer", t, us)
    \/ \E t \in LiveTags, os \in SUBSET LedgerOutputs : SyncOutputDetails(t, os)
    \/ \E d \in DLIds, us \in SUBSET Users : CreateDL(Owner, d, "site_a", {Owner}, us)
    \/ \E d \in LiveDLs, us \in SUBSET Users : UpdateDL(Owner, d, "site_a", {Owner}, us)
    \/ \E d \in LiveDLs : DeleteDL(Owner, d)
    \/ PromoteVersion(1)

Spec == Init /\ [][Next]_vars

\* ------------------------------------------------------------------- ledger
\* C1: after any sequence of reconciled batches, every (tag id, output id,
\* user) triple has at most one ledger row whose file_shared_to_ts is null.
OpenRowsOfTriple(t, o, u) ==
    {r \in DOMAIN ledger : r.tag_id = t /\ r.out = o /\ r.user = u /\ r.to = NullTs}

RowsOfUser(L, t, u) == {r \in DOMAIN L : r.tag_id = t /\ r.user = u}
Linked(vs, t) == {p[1] : p \in RowsWithKey(vs, t)}
TagUpdateStep(t) ==
    \E su \in BOOLEAN, us \in SUBSET Users, sd \in BOOLEAN, ds \in SUBSET DLIds :
        UpdateTag("programmer", t, "ADR_2024", su, us, sd, ds)

ScenarioCreate ==
    \A u \in Users, o \in LedgerOutputs :
        (CreateTag("programmer", "ADR_2024", 1, {u}, {}, {o}, FALSE) /\ resp'.status = 200)
        => /\ DOMAIN ledger' \ DOMAIN ledger =
                  {r \in DOMAIN ledger' : r.tag_id = nextTagId /\ r.out = o /\ r.user = u
                                           /\ r.from = now' /\ r.to = NullTs}
           /\ SumOver(DOMAIN ledger' \ DOMAIN ledger, ledger') = 1

ScenarioRemove ==
    \A t \in TagIds, u \in Users :
        (/\ TagUpdateStep(t) /\ resp'.status = 200
         /\ u \in get_all_users(tags, dls, t)
         /\ u \notin get_all_users(tags', dls', t))
        => /\ \A r \in RowsOfUser(ledger, t, u) :
                  IF r.to = NullTs
                  THEN [r EXCEPT !.to = now'] \in DOMAIN ledger' /\ r \notin DOMAIN ledger'
                  ELSE r \in DOMAIN ledger' /\ ledger'[r] = ledger[r]
           /\ \A r \in RowsOfUser(ledger', t, u) : r.from # now'

ScenarioReAdd ==
    \A t \in TagIds, u \in Users, o \in LedgerOutputs :
        (/\ TagUpdateStep(t) /\ resp'.status = 200
         /\ u \notin get_all_users(tags, dls, t)
         /\ u \in get_all_users(tags', dls', t)
         /\ o \in Linked(versions, t)
         /\ \E r \in RowsOfUser(ledger, t, u) : r.out = o /\ r.to # NullTs)
        => /\ \E r \in RowsOfUser(ledger', t, u) :
                  r.out = o /\ r.to = NullTs /\ r.from = now'
           /\ \A r \in RowsOfUser(ledger, t, u) :
                  r.to # NullTs => r \in DOMAIN ledger' /\ ledger'[r] = ledger[r]

MetricsScenarioCreateRemove == [][ScenarioCreate /\ ScenarioRemove]_vars
MetricsScenario == [][ScenarioCreate /\ ScenarioRemove /\ ScenarioReAdd]_vars

\* SpecTags: the per-version tag maps under two tags.  Tags are created as
\* "ADR_2024" in releases 1 and 3, renamed, attached, detached, re-synced and
\* deleted while outputs 1 and 2 get new versions; alice is the only member.
TagOutputs == {1, 2}

NextTags ==
    \/ \E dbr \in {1, 3}, os \in NonEmpty(TagOutputs) :
          nextTagId <= 2 /\ CreateTag("programmer", "ADR_2024", dbr, {"alice"}, {}, os, FALSE)
    \/ \E t \in LiveTags, n \in TagNames :
          UpdateTag("programmer", t, n, TRUE, {"alice"}, FALSE, {})
    \/ \E t \in LiveTags : DeleteTag("programmer", t)
    \/ \E t \in LiveTags, os \in NonEmpty(TagOutputs) : AddRecord("programmer", t, os, FALSE)
    \/ \E t \in LiveTags, os \in NonEmpty(TagOutputs) : RemoveRecord("programmer", t, os)
    \/ \E t \in LiveTags, os \in SUBSET TagOutputs : SyncOutputDetails(t, os)
    \/ PromoteVersion(1)

SpecTags == Init /\ [][NextTags]_vars

\* ----------------------------------------------------------------- tag maps
\* C3: in every reachable state every output that has versions has exactly
\* one version with is_latest = TRUE; this holds right after a promotion and
\* after every tag operation (create, add/remove records, sync, delete).
ExactlyOneLatest ==
    \A o \in OutputIds :
        Len(versions[o]) > 0 =>
            Cardinality({i \in DOMAIN versions[o] : versions[o][i].is_latest}) = 1

\* A promoted output whose superseded version still carries a tag key.
PromotedOutputUnderTag ==
    \E o \in OutputIds, t \in TagIds :
        /\ Len(versions[o]) > 1
        /\ versions[o][Len(versions[o])].is_latest
        /\ tags[t].live
        /\ HasKey(versions[o][1], t)

\* C4: attaching (tag id, tag name) to the same set of versions twice leaves
\* every tag map as after attaching it once, and a version that already has
\* the key is not changed by the attachment.  The sets are the ones the
\* handlers pass: the latest versions of a set of outputs.
AttachIdempotent ==
    \A t \in TagIds, n \in TagNames, os \in NonEmpty(TagOutputs) :
        LET rows == LatestRows(versions, os)
            once == update_output_details_hstore_tags(versions, rows, t, n)
        IN  /\ update_output_details_hstore_tags(once, rows, t, n) = once
            /\ \A p \in rows :
                   HasKey(versions[p[1]][p[2]], t) => once[p[1]][p[2]] = versions[p[1]][p[2]]

\* A version that carries a live tag's key under a value other than the name
\* a further attachment of that tag would write.
KeyHeldUnderOtherValue ==
    \E t \in TagIds, p \in AllVersionRows(versions) :
        /\ tags[t].live
        /\ HasKey(versions[p[1]][p[2]], t)
        /\ versions[p[1]][p[2]].tags[t] # tags[t].tag_name

\* C5: after a tag is renamed to a new name, every version (latest or
\* historical, of any output) whose tag map contains the tag's id maps that
\* id to the new name.
RenameStep(t, n) ==
    /\ UpdateTag("programmer", t, n, TRUE, {"alice"}, FALSE, {})
    /\ resp'.status = 200
    /\ n # tags[t].tag_name

RenameReachesEveryVersion ==
    [][\A t \in TagIds, n \in TagNames :
          RenameStep(t, n) =>
              \A p \in AllVersionRows(versions') :
                  HasKey(versions'[p[1]][p[2]], t) => versions'[p[1]][p[2]].tags[t] = n]_vars

\* A renamed tag whose key sits, under the new name, on a superseded version.
RenamedOnHistoricalVersion ==
    \E t \in TagIds, o \in OutputIds :
        /\ tags[t].live
        /\ tags[t].tag_name = "ADR_2025"
        /\ Len(versions[o]) > 1
        /\ ~versions[o][1].is_latest
        /\ HasKey(versions[o][1], t)
        /\ versions[o][1].tags[t] = "ADR_2025"

\* C6: after a sync request for tag T over a set of outputs, for every one of
\* those outputs that has some version carrying T's id, the current-latest
\* version's tag map maps T's id to T's tag name.
SyncedOutputs(t, os) == IF os = {} THEN Linked(versions, t) ELSE os \cap Linked(versions, t)

SyncWritesTagName ==
    [][\A t \in TagIds, os \in SUBSET TagOutputs :
          (SyncOutputDetails(t, os) /\ tags[t].live) =>
              \A p \in LatestRows(versions', SyncedOutputs(t, os)) :
                  /\ HasKey(versions'[p[1]][p[2]], t)
                  /\ versions'[p[1]][p[2]].tags[t] = tags[t].tag_name]_vars

\* C7: after records are removed from tag T for a set of outputs, no version
\* (latest or historical) of those outputs carries T's id, and the tag maps
\* of the versions of all other outputs are unchanged.
RemoveRecordClearsEveryVersion ==
    [][\A t \in TagIds, os \in NonEmpty(TagOutputs) :
          (RemoveRecord("programmer", t, os) /\ resp'.status = 200) =>
              /\ \A p \in RowsOf(versions', os) : ~HasKey(versions'[p[1]][p[2]], t)
              /\ \A p \in AllVersionRows(versions) :
                     p[1] \notin os => versions'[p[1]][p[2]] = versions[p[1]][p[2]]
              /\ AllVersionRows(versions') = AllVersionRows(versions)]_vars

\* Records of a promoted output were removed from a live tag that keeps
\* another output: the output's rows closed at the request's timestamp, none
\* of its versions carries the key.
RecordsRemovedFromPromotedOutput ==
    \E t \in TagIds, o \in TagOutputs :
        /\ tags[t].live
        /\ Len(versions[o]) > 1
        /\ RowsWithKey(versions, t) \cap RowsOf(versions, {o}) = {}
        /\ RowsWithKey(versions, t) # {}
        /\ \E r \in DOMAIN ledger : r.tag_id = t /\ r.out = o /\ r.to = now
        /\ ~\E r \in DOMAIN ledger : r.tag_id = t /\ r.out = o /\ r.to = NullTs

\* ------------------------------------------------------- tag-name conflicts
\* SpecConflict: tags of both names are created in the three releases (1 is
\* of source 1, 2 and 3 of source 2; 1 and 2 share their release, study and
\* compound names) by either role, over one output or over outputs 2 and 3
\* together; records are added likewise and removed one output at a time.
ConflictSets == {{1}, {2}, {3}, {2, 3}}
ConflictDbrs == {1, 2, 3}

NextConflict ==
    \/ \E role \in Roles, n \in TagNames, dbr \in ConflictDbrs, os \in ConflictSets :
          nextTagId <= 2 /\ CreateTag(role, n, dbr, {"alice"}, {}, os, FALSE)
    \/ \E t \in LiveTags, os \in ConflictSets : AddRecord("programmer", t, os, FALSE)
    \/ \E t \in LiveTags, o \in OutputIds : RemoveRecord("programmer", t, {o})

SpecConflict == Init /\ [][NextConflict]_vars

\* C8: creating a tag, or adding records, under tag name N and source B is
\* rejected with the conflict error whenever some version of an output whose
\* identifier is in the candidate set already carries a tag named N of a
\* source other than B, with the same release, study and compound names and
\* the same middle path; a rejected request creates no tag and changes no
\* version's tag map.  The conflict error is the answer to every request that
\* got as far as the conflict query, a programmer's; a reviewer is refused before it.
MiddlePath(o) == SubSeq(FilePath(o), 3, Len(FilePath(o)) - 1)

Conflicting(N, B, names, candidates) ==
    \E c \in candidates, o \in OutputIds, t \in TagIds :
        /\ tags[t].live
        /\ \E i \in DOMAIN versions[o] : HasKey(versions[o][i], t)
        /\ tags[t].tag_name = N
        /\ tags[t].source_id # B
        /\ DbrNames(tags[t].dbr) = names
        /\ Identifier(o) = Identifier(c)
        /\ MiddlePath(o) = MiddlePath(c)

Untagged(t, os) == {o \in os : RowsWithKey(versions, t) \cap RowsOf(versions, {o}) = {}}

RejectedUnchanged == resp'.status >= 400 /\ UNCHANGED <<tags, nextTagId, versions, ledger>>

ConflictRejected ==
    [][/\ \A role \in Roles, n \in TagNames, dbr \in ConflictDbrs, os \in ConflictSets :
             (/\ CreateTag(role, n, dbr, {"alice"}, {}, os, FALSE)
              /\ Conflicting(n, DbrSource(dbr), DbrNames(dbr), os))
             => /\ RejectedUnchanged
                /\ role = "programmer" => resp'.error = "tag_name_conflict"
       /\ \A t \in LiveTags, os \in ConflictSets :
             (/\ AddRecord("programmer", t, os, FALSE)
              /\ Conflicting(tags[t].tag_name, tags[t].source_id, DbrNames(tags[t].dbr),
                             Untagged(t, os)))
             => /\ RejectedUnchanged
                /\ resp'.error = "tag_name_conflict"]_vars

\* The conflict error was returned to a request while two live tags hold the
\* same name in releases of different sources with the same names: the second
\* was created over an output that did not conflict, and its records could
\* not be extended to one that does.
ConflictErrorReturned ==
    /\ resp.error = "tag_name_conflict"
    /\ \E t \in TagIds, u \in TagIds :
          /\ t # u
          /\ tags[t].live /\ tags[u].live
          /\ tags[t].tag_name = tags[u].tag_name
          /\ tags[t].source_id # tags[u].source_id
          /\ DbrNames(tags[t].dbr) = DbrNames(tags[u].dbr)

\* ------------------------------------------------------------------- access
\* C9: for every user u and every state reachable by tag create, add/remove
\* records, add/remove users and distribution-list updates, the outputs
\* accessible to u are exactly the outputs whose latest version's tag map
\* contains the id of a tag that lists u directly or through one of the tag's
\* distribution lists.
OutputsTaggedFor(u) ==
    {o \in OutputIds :
        \E t \in TagIds, i \in DOMAIN versions[o] :
            /\ tags[t].live
            /\ versions[o][i].is_latest
            /\ HasKey(versions[o][i], t)
            /\ u \in get_all_users(tags, dls, t)}

AccessibleIsTaggedForUser ==
    \A u \in Users :
        get_reviewer_accessible_output_ids_query(links, tags, dls, u) = OutputsTaggedFor(u)

\* SpecAuth: the reviewer gate over a database in which tag 1 and list 1
\* exist (alice a direct user or not, the list holding bob or erin) and the
\* output/tag link table holds any rows for tag 1 (the rows the sprint-04
\* create_tag wrote with the tag).  alice and bob are reviewers and download
\* any list of up to two outputs, also one that names an output twice; carol
\* is a programmer and downloads output 3, which no tag covers, or
\* everything.  All ask for presigned urls, also of an output that does not
\* exist.
Reviewers == Users
FileIds == OutputIds \cup {4}

InitAuth ==
    /\ \E us \in SUBSET {"alice"}, ds \in SUBSET DLIds :
          /\ us # {} \/ ds # {}
          /\ tags = [t \in TagIds |->
                       IF t = 1
                       THEN [live |-> TRUE, tag_name |-> "ADR_2024", users |-> us,
                             dls |-> ds, dbr |-> 1, source_id |-> DbrSource(1)]
                       ELSE NoTag]
    /\ nextTagId = 2
    /\ \E us \in {{"bob"}, {"erin"}} :
          dls = [d \in DLIds |-> [live |-> TRUE, name |-> "site_a", created_by |-> Owner,
                                  co_owners |-> {Owner}, users |-> us]]
    /\ versions = [o \in OutputIds |->
                     << [major |-> 1, minor |-> 0, is_latest |-> TRUE, tags |-> NoTags] >>]
    /\ \E os \in SUBSET {1, 2} : links = {<<o, 1>> : o \in os}
    /\ ledger = EmptyBag
    /\ now = 0
    /\ served = {}
    /\ docs_shared_as = [o \in OutputIds |-> "None"]
    /\ audit_logs = {}
    /\ fault = "none"
    /\ horizon = MaxTime
    /\ sessions = [r \in Requests |-> IdleSession]
    /\ sync = IdleSync
    /\ resp = [status |-> 0, error |-> ""]

\* the download jobs of these requests: every unit succeeds, or every unit raises
JobFailures == {{}, OutputIds}
FileLists == {<< >>} \cup {<<a>> : a \in OutputIds} \cup {<<a, b>> : a, b \in OutputIds}
ProgrammerLists == {<<3>>, <<1, 2, 3>>}

NextAuth ==
    \/ \E u \in Reviewers, ids \in FileLists, bad \in JobFailures :
          Download("reviewer", u, ids, "PROD", FALSE, bad)
    \/ \E ids \in ProgrammerLists, bad \in JobFailures :
          Download("programmer", Owner, ids, "PROD", FALSE, bad)
    \/ \E u \in Reviewers, id \in FileIds : GetPresignedUrl("reviewer", u, id)
    \/ \E id \in {3, 4} : GetPresignedUrl("programmer", Owner, id)

SpecAuth == InitAuth /\ [][NextAuth]_vars

\* C10: a download or presigned-url request by a reviewer proceeds if and
\* only if every requested output id is among that reviewer's accessible
\* outputs; otherwise it fails with the authorization error and no file is
\* served.  A programmer's request is never refused by this check.
Accessible(u) == get_reviewer_accessible_output_ids_query(links, tags, dls, u)

DenialDetail ==
    [][/\ \A u \in Reviewers, ids \in FileLists, bad \in JobFailures :
             (Download("reviewer", u, ids, "PROD", FALSE, bad) /\ resp'.status = 403) =>
                 IF Len(ids) = 1
                 THEN resp'.error = NoAccessToFile(Identifier(ids[1]))
                 ELSE Len(ids) >= 2 /\ resp'.error = NoAccessToFiles
       /\ \A u \in Reviewers, id \in FileIds :
             (GetPresignedUrl("reviewer", u, id) /\ resp'.status = 403) =>
                 resp'.error = NoAccessToFile(IF id \in OutputIds THEN Identifier(id)
                                              ELSE "None")]_vars

\* The generic denial was returned to a reviewer who can reach some outputs
\* and not others, so that the denied ids of a two-id request vary.
BulkDenialUnderPartialAccess ==
    /\ resp.status = 403
    /\ resp.error = NoAccessToFiles
    /\ \E u \in Reviewers : Accessible(u) # {} /\ Accessible(u) # OutputIds

\* ------------------------------------------------------------- tag members
\* C12: in every reachable state every existing tag has at least one direct
\* user or at least one distribution list; this holds after tag create, tag
\* update, add-users, remove-users and distribution-list deletion.
TagHasUsersOrLists ==
    \A t \in TagIds : tags[t].live => tags[t].users # {} \/ tags[t].dls # {}

\* ------------------------------------------------------------- draft marker
\* SpecDraft: tags of a DOCS release over outputs 1 and 2.  A programmer
\* creates up to two tags, with or without the draft flag, adds and removes
\* records and deletes tags.
DraftOutputs == {1, 2}

NextDraft ==
    \/ \E n \in TagNames, os \in NonEmpty(DraftOutputs), dr \in BOOLEAN :
          CreateTag("programmer", n, 4, {"alice"}, {}, os, dr)
    \/ \E t \in LiveTags, os \in NonEmpty(DraftOutputs), dr \in BOOLEAN :
          AddRecord("programmer", t, os, dr)
    \/ \E t \in LiveTags, os \in NonEmpty(DraftOutputs) : RemoveRecord("programmer", t, os)
    \/ \E t \in LiveTags : DeleteTag("programmer", t)

SpecDraft == Init /\ [][NextDraft]_vars

\* the outputs with tag t on some version
OutputsCarrying(vs, t) == {p[1] : p \in RowsWithKey(vs, t)}

\* output o has some tag on some version
CarriesATag(vs, o) == \E i \in 1..Len(vs[o]) : DOMAIN vs[o][i].tags # {}

\* across a step: cleared when no tag is left, kept otherwise
MarkerSettled(o) ==
    IF CarriesATag(versions', o) THEN docs_shared_as'[o] = docs_shared_as[o]
    ELSE docs_shared_as'[o] = "None"

\* C13: after a tag is deleted or records are removed from a tag, every
\* affected output left with no tag on any of its versions has its
\* docs_shared_as marker cleared, and an affected output that still carries
\* another tag keeps its marker.
DraftMarkerFollowsTags ==
    [][\A t \in TagIds, os \in NonEmpty(DraftOutputs) :
          /\ (DeleteTag("programmer", t) /\ resp'.status = 200)
                => \A o \in OutputsCarrying(versions, t) : MarkerSettled(o)
          /\ (RemoveRecord("programmer", t, os) /\ resp'.status = 200)
                => \A o \in os \cap OutputsCarrying(versions, t) : MarkerSettled(o)]_vars

\* -------------------------------------------------------------- audit trail
\* SpecAudit: every audited route.  One tag over outputs 1 and 2 and one
\* distribution list; the requests are named so that a step can be told by
\* the request that made it.
PostTags ==
    \E n \in {"ADR_2024", "None"}, os \in NonEmpty(LedgerOutputs) :
       nextTagId = 1 /\ CreateTag("programmer", n, 1, {"alice"}, {}, os, FALSE)
PutTag ==
    \E t \in LiveTags, n \in TagNames, ds \in SUBSET DLIds :
       UpdateTag("programmer", t, n, TRUE, {"alice"}, TRUE, ds)
DeleteTagById == \E t \in LiveTags : DeleteTag("programmer", t)
PostRecords ==
    \E t \in LiveTags, os \in NonEmpty(LedgerOutputs) : AddRecord("programmer", t, os, FALSE)
DeleteRecords ==
    \E t \in LiveTags, os \in NonEmpty(LedgerOutputs) : RemoveRecord("programmer", t, os)
PostTagUsers == \E t \in LiveTags : AddUsersToTag("programmer", t, {"bob"})
DeleteTagUsers == \E t \in LiveTags : RemoveUsersFromTag("programmer", t, {"bob"})
PostSync == \E t \in LiveTags, os \in SUBSET LedgerOutputs : SyncOutputDetails(t, os)
AuditDLUsers == {{"alice"}, {"bob"}}
PostDLs == \E d \in DLIds, us \in AuditDLUsers : CreateDL(Owner, d, "site_a", {Owner}, us)
PutDL == \E d \in LiveDLs, us \in AuditDLUsers : UpdateDL(Owner, d, "site_a", {Owner}, us)
DeleteDLById == \E d \in LiveDLs : DeleteDL(Owner, d)
PostDownload == \E ids \in {<<1>>, <<1, 2>>} : Download("programmer", Owner, ids, "PROD", FALSE, {})
GetUrl == GetPresignedUrl("programmer", Owner, 1)

NextAudit ==
    \/ PostTags
    \/ PutTag
    \/ DeleteTagById
    \/ PostRecords
    \/ DeleteRecords
    \/ PostTagUsers
    \/ DeleteTagUsers
    \/ PostSync
    \/ PostDLs
    \/ PutDL
    \/ DeleteDLById
    \/ PostDownload
    \/ GetUrl

SpecAudit == Init /\ [][NextAudit]_vars

\* the actions of the entries a step emitted
ActionsLogged == {e.action : e \in audit_logs'}

\* C14: the audit action recorded for a mutating request is CREATE for POST,
\* UPDATE for PUT or PATCH and DELETE for DELETE, except that a path
\* containing "records" yields UPDATE, an "output-details/sync" path yields
\* SYNC and a POST to a download path yields DOWNLOAD; a GET request produces
\* no audit entry.
AuditActionByRequest ==
    [][/\ PostTags \/ PostTagUsers \/ PostDLs => ActionsLogged \subseteq {"CREATE"}
       /\ PutTag \/ PutDL => ActionsLogged \subseteq {"UPDATE"}
       /\ DeleteTagById \/ DeleteTagUsers \/ DeleteDLById
             => ActionsLogged \subseteq {"DELETE"}
       /\ PostRecords \/ DeleteRecords => ActionsLogged \subseteq {"UPDATE"}
       /\ PostSync => ActionsLogged \subseteq {"SYNC"}
       /\ PostDownload => ActionsLogged \subseteq {"DOWNLOAD"}
       /\ GetUrl => audit_logs' = {}]_vars

\* a records request was logged: only such a request changes output_details
\* under the action UPDATE
RecordsRequestLoggedAsUpdate ==
    \E e \in audit_logs : e.action = "UPDATE" /\ e.object_property = "output_details"

\* the requests of SpecAudit that are diffed against tag t, and against list d
DiffedTagRequest(t) ==
    \/ \E n \in TagNames, ds \in SUBSET DLIds :
          UpdateTag("programmer", t, n, TRUE, {"alice"}, TRUE, ds)
    \/ \E os \in NonEmpty(LedgerOutputs) : AddRecord("programmer", t, os, FALSE)
    \/ \E os \in NonEmpty(LedgerOutputs) : RemoveRecord("programmer", t, os)
    \/ AddUsersToTag("programmer", t, {"bob"})
    \/ \E os \in SUBSET LedgerOutputs : SyncOutputDetails(t, os)
DiffedDLRequest(d) == \E us \in AuditDLUsers : UpdateDL(Owner, d, "site_a", {Owner}, us)

\* after a 2xx response: one entry for each field whose string form differs
\* between the two snapshots, none for the others
OneEntryPerDifference(old, new) ==
    resp'.status \in {200, 202} =>
        /\ \A e \in audit_logs' : e.object_property \in SnapFields
        /\ \A f \in SnapFields :
              Cardinality({e \in audit_logs' : e.object_property = f})
                 = IF FieldVal(old, f) # FieldVal(new, f) THEN 1 ELSE 0

\* C15: for a CREATE, UPDATE or SYNC request the emitted batch holds exactly
\* one entry for each field whose string form differs between the snapshot
\* taken before the request and the one taken after it, and no entry for a
\* field whose string form is equal; for a create the before snapshot is empty.
AuditEntryPerChangedField ==
    [][/\ PostTags => OneEntryPerDifference(AbsentSnap,
                                            TagSnapshot(tags', versions', nextTagId))
       /\ \A t \in TagIds :
             DiffedTagRequest(t) => OneEntryPerDifference(TagSnapshot(tags, versions, t),
                                                          TagSnapshot(tags', versions', t))
       /\ \A d \in DLIds :
             /\ PostDLs => OneEntryPerDifference(AbsentSnap, DLSnapshot(dls', d))
             /\ DiffedDLRequest(d) => OneEntryPerDifference(DLSnapshot(dls, d),
                                                            DLSnapshot(dls', d))]_vars

\* a tag named None was created: str(None) equals the name, so the batch has
\* an output_details entry and no tag_name entry
CreateLoggedWithoutNameEntry ==
    /\ \E e \in audit_logs : e.action = "CREATE" /\ e.object_property = "output_details"
    /\ \A e \in audit_logs : e.object_property # "tag_name"

\* C16: within one request the snapshots bracket the mutation, and audit
\* entries are emitted and the reconciler is run only when the mutation
\* succeeded: a request answered with a non-2xx status adds no audit entry
\* and changes no ledger row, and the ledger changes only with a batch.
FailedRequestLeavesNoTrace ==
    [][/\ resp'.status \notin {200, 201, 202, 204}
             => audit_logs' = {} /\ ledger' = ledger
       /\ ledger' # ledger => audit_logs' # {}]_vars

\* a request was refused while the ledger held rows
RefusedWithRowsInLedger == resp.status >= 400 /\ audit_logs = {} /\ ledger # EmptyBag

\* ------------------------------------------------------ audit-layer failures
\* SpecFault: the requests of SpecAudit while one step of the audit layer
\* fails (or none does).
InitFault ==
    /\ tags = [t \in TagIds |-> NoTag]
    /\ nextTagId = 1
    /\ dls = [d \in DLIds |-> NoDL]
    /\ versions = [o \in OutputIds |->
                     << [major |-> 1, minor |-> 0, is_latest |-> TRUE, tags |-> NoTags] >>]
    /\ links = {}
    /\ ledger = EmptyBag
    /\ now = 0
    /\ served = {}
    /\ docs_shared_as = [o \in OutputIds |-> "None"]
    /\ audit_logs = {}
    /\ fault \in Faults
    /\ horizon = MaxTime
    /\ sessions = [r \in Requests |-> IdleSession]
    /\ sync = IdleSync
    /\ resp = [status |-> 0, error |-> ""]

SpecFault == InitFault /\ [][NextAudit]_vars

\* C17: a failure inside audit emission (fetch of the new snapshot, local
\* persistence of the entries, publish to the message bus) or inside the
\* reconciler never changes the response of the business request that has
\* already committed: a step that changed a tag, a list or a version map is
\* answered with a 2xx status.
CommittedRequestKeepsResponse ==
    [][tags' # tags \/ dls' # dls \/ versions' # versions
          => resp'.status \in {200, 201, 202, 204}]_vars

\* ------------------------------------------------------------ batch replay
\* the batch a step handed to the reconciler, rebuilt from the step
LoggedAction == (CHOOSE e \in audit_logs' : TRUE).action
BatchOf(object_type, key, old, new) ==
    [action |-> LoggedAction, object_type |-> object_type, object_key |-> key,
     ts |-> now', fields |-> IF LoggedAction = "DELETE" THEN {} ELSE ChangedFields(old, new),
     old |-> old, new |-> new]

\* processing the batch once more, with some order of its output entries,
\* leaves the ledger as the first processing left it
ReplayedWithoutEffect(batch) ==
    audit_logs' # {} =>
        \E pick \in Picks(batch.new.output_details) :
           process_audit_logs_for_shared_folder_metrics(ledger', tags', dls', batch, pick)
              = ledger'

\* C18: processing the same audit batch twice (tag CREATE, UPDATE, SYNC,
\* DELETE and distribution-list users UPDATE) leaves the ledger with the same
\* rows as processing it once; no row is duplicated by the replay.
ReplayLeavesLedger ==
    [][/\ PostTags => ReplayedWithoutEffect(
                         BatchOf("database_release_tag", nextTagId, AbsentSnap,
                                 TagSnapshot(tags', versions', nextTagId)))
       /\ \A t \in TagIds :
             /\ DiffedTagRequest(t) => ReplayedWithoutEffect(
                                          BatchOf("database_release_tag", t,
                                                  TagSnapshot(tags, versions, t),
                                                  TagSnapshot(tags', versions', t)))
             /\ DeleteTag("programmer", t) => ReplayedWithoutEffect(
                                          BatchOf("database_release_tag", t,
                                                  TagSnapshot(tags, versions, t), AbsentSnap))
       /\ \A d \in DLIds :
             DiffedDLRequest(d) => ReplayedWithoutEffect(
                                      BatchOf("distribution_lists", d,
                                              DLSnapshot(dls, d), DLSnapshot(dls', d)))]_vars

\* ------------------------------------------------- distribution-list members
\* SpecLists: one list and one tag over output 1.  The list is created with
\* its members, the tag with direct users or the list, direct users are
\* removed and the list's members replaced; the runs stamp one timestamp
\* more than the others.
InitLists ==
    /\ tags = [t \in TagIds |-> NoTag]
    /\ nextTagId = 1
    /\ dls = [d \in DLIds |-> NoDL]
    /\ versions = [o \in OutputIds |->
                     << [major |-> 1, minor |-> 0, is_latest |-> TRUE, tags |-> NoTags] >>]
    /\ links = {}
    /\ ledger = EmptyBag
    /\ now = 0
    /\ served = {}
    /\ docs_shared_as = [o \in OutputIds |-> "None"]
    /\ audit_logs = {}
    /\ fault = "none"
    /\ horizon = MaxTime + 1
    /\ sessions = [r \in Requests |-> IdleSession]
    /\ sync = IdleSync
    /\ resp = [status |-> 0, error |-> ""]

NextLists ==
    \/ \E d \in DLIds, us \in NonEmpty(Users) : CreateDL(Owner, d, "site_a", {Owner}, us)
    \/ \E us \in SUBSET Users, ds \in SUBSET DLIds :
          nextTagId = 1 /\ CreateTag("programmer", "ADR_2024", 1, us, ds, {1}, FALSE)
    \/ \E t \in LiveTags, us \in NonEmpty(Users) : RemoveUsersFromTag("programmer", t, us)
    \/ \E d \in LiveDLs, us \in SUBSET Users : UpdateDL(Owner, d, "site_a", {Owner}, us)

SpecLists == InitLists /\ [][NextLists]_vars

\* a successful update of list d
DLUpdateStep(d) ==
    /\ \E us \in SUBSET Users : UpdateDL(Owner, d, "site_a", {Owner}, us)
    /\ resp'.status = 200

\* the open rows of user u under tag t
OpenRowsOfUser(L, t, u) == {r \in OpenRows(L, t) : r.user = u}

\* C19: after a distribution list's users are updated, for every tag that
\* references the list, each user added to the list has an open row for every
\* output currently linked to that tag, and each user removed from the list
\* has their open rows for that tag closed with shared_to equal to the
\* request timestamp.
DLUpdateReachesLedger ==
    [][\A d \in DLIds :
          DLUpdateStep(d) =>
             \A t \in TagIdsForDL(tags', d) :
                /\ \A u \in dls'[d].users \ dls[d].users :
                      \A o \in OutputsCarrying(versions', t) :
                         \E r \in OpenRowsOfUser(ledger', t, u) : r.out = o
                /\ \A u \in dls[d].users \ dls'[d].users :
                      /\ OpenRowsOfUser(ledger', t, u) = {}
                      /\ \A r \in OpenRowsOfUser(ledger, t, u) :
                            BagIn([r EXCEPT !.to = now'], ledger')]_vars

\* ------------------------------------------------------ interrupted batches
\* SpecInterrupt: requests on one tag and one list while the database the
\* reconciler writes to fails and recovers between requests.
InterruptFaults == {"none", "reconcile", "reconcile_late"}

FaultArises(f) ==
    /\ f # fault
    /\ fault' = f
    /\ UNCHANGED <<tags, nextTagId, dls, versions, links, ledger, now, served,
                   docs_shared_as, audit_logs, horizon, sessions, sync, resp>>

NextInterrupt ==
    \/ PostTags
    \/ PutTag
    \/ DeleteTagById
    \/ PostRecords
    \/ DeleteRecords
    \/ PostDLs
    \/ PutDL
    \/ \E f \in InterruptFaults : FaultArises(f)

SpecInterrupt == Init /\ [][NextInterrupt]_vars

\* C21: a reconciliation batch that raises an exception, or is abandoned
\* part-way, leaves the ledger exactly as it was before the batch: none of
\* the batch's row insertions or closings persists.
RaisedAtFirstStatement == fault = "reconcile" /\ audit_logs' # {}
RaisedAfterCommit ==
    /\ fault = "reconcile_late"
    /\ \E e \in audit_logs' :
          /\ e.object_type = "database_release_tag"
          /\ e.action \in {"UPDATE", "SYNC"}
          /\ e.object_property \in {"tag_name", "output_details"}

InterruptedBatchLeavesLedger ==
    [][RaisedAtFirstStatement \/ RaisedAfterCommit => ledger' = ledger]_vars

\* ------------------------------------------------------------ rows of a create
\* a successful create of tag 1 by the requests of Spec
TagCreateStep(us, ds, os) ==
    /\ nextTagId = 1
    /\ CreateTag("programmer", "ADR_2024", 1, us, ds, os, FALSE)
    /\ resp'.status = 200

\* the versions of output o that carry tag t
VersionsCarrying(vs, o, t) == {i \in DOMAIN vs[o] : HasKey(vs[o][i], t)}

\* C22: on tag CREATE the reconciler inserts exactly one open row for every
\* pair (u, o) with u among the tag's direct users or the users of its linked
\* distribution lists and o among the tag's linked outputs, each stamped with
\* the request timestamp and with file_version_major and file_version_minor
\* equal to the major and minor numbers of the version of o that carries the
\* tag.
CreateRowsCarryVersion ==
    [][\A us \in SUBSET Users, ds \in SUBSET DLIds, os \in NonEmpty(LedgerOutputs) :
          TagCreateStep(us, ds, os) =>
             \A u \in us \cup DLUsers(dls', ds), o \in os :
                /\ SumOver(OpenRowsOfTriple(1, o, u)', ledger') = 1
                /\ \A r \in OpenRowsOfTriple(1, o, u)' :
                      /\ r.from = now'
                      /\ \E i \in VersionsCarrying(versions', o, 1) :
                            /\ r.vmaj = versions'[o][i].major
                            /\ r.vmin = versions'[o][i].minor]_vars

\* -------------------------------------------------------------- list owners
\* SpecOwners: list 1 is created by carol or dave with either or both as
\* co-owners and alice or bob as members; carol, dave and alice (who is no
\* owner) send updates of its name, co-owners and members, and deletes.
OwnerNames == {"carol", "dave"}
Actors == OwnerNames \cup {"alice"}

NextOwners ==
    \/ \E a \in OwnerNames, d \in DLIds, co \in NonEmpty(OwnerNames), us \in NonEmpty(Users) :
          CreateDL(a, d, "site_a", co, us)
    \/ \E a \in Actors, d \in DLIds, n \in DLNames, co \in NonEmpty(OwnerNames),
          us \in NonEmpty(Users) : UpdateDL(a, d, n, co, us)
    \/ \E a \in Actors, d \in DLIds : DeleteDL(a, d)

SpecOwners == Init /\ [][NextOwners]_vars

\* neither the creator nor a co-owner of the existing list d
NotAnOwner(a, d) ==
    dls[d].live /\ a # dls[d].created_by /\ a \notin dls[d].co_owners

RefusedUntouched ==
    /\ resp'.status = 403
    /\ resp'.error = "forbidden"
    /\ dls' = dls

\* C23: an update or delete of a distribution list by a user who is neither
\* its creator nor one of its co-owners is rejected with a Forbidden error
\* and leaves the list's name, co-owners and users unchanged.
NonOwnerRefused ==
    [][\A a \in Actors, d \in DLIds :
          NotAnOwner(a, d) =>
             /\ \A n \in DLNames, co \in NonEmpty(OwnerNames), us \in NonEmpty(Users) :
                   UpdateDL(a, d, n, co, us) => RefusedUntouched
             /\ DeleteDL(a, d) => RefusedUntouched]_vars

\* a request was refused on a list that a co-owner has renamed and whose
\* creator is not among its co-owners
RefusedOnRenamedList ==
    /\ resp.status = 403
    /\ \E d \in DLIds :
          /\ dls[d].live
          /\ dls[d].name = "site_b"
          /\ dls[d].created_by \notin dls[d].co_owners

\* ------------------------------------------------------------ download jobs
\* SpecJob: a programmer downloads one to three files under each source
\* setting (or none), with watermarking on or off, while the copy or the
\* handler of any of the files may raise; a tag of a DOCS release marks
\* outputs 1 and 2 as draft or final.
JobLists == {<<1>>, <<3>>, <<1, 2>>, <<1, 3>>, <<1, 2, 3>>}
JobSources == {"PROD", "PREPROD", "DOCS", "None"}

NextJob ==
    \/ \E os \in NonEmpty(DraftOutputs), dr \in BOOLEAN :
          nextTagId = 1 /\ CreateTag("programmer", "ADR_2024", 4, {"alice"}, {}, os, dr)
    \/ \E ids \in JobLists, src \in JobSources, w \in BOOLEAN, bad \in SUBSET OutputIds :
          Download("programmer", Owner, ids, src, w, bad)

SpecJob == Init /\ [][NextJob]_vars

\* some requested file's unit of work raised or returned no output
SomeUnitWithoutOutput(ids, src, w, bad) ==
    \E o \in Range(ids) :
        process_single_file(o, src, docs_shared_as[o], w, bad) # "path"

\* C24: in a multi-file download job, if the unit of work for any one file
\* fails or produces no output, the aggregate job fails; a job never returns
\* a zip or file that holds only a proper subset of the requested files.
JobAllOrNothing ==
    [][\A ids \in JobLists, src \in JobSources, w \in BOOLEAN, bad \in SUBSET OutputIds :
          Download("programmer", Owner, ids, src, w, bad) =>
             /\ SomeUnitWithoutOutput(ids, src, w, bad)
                   => resp'.status = 500 /\ served' = served
             /\ resp'.status = 200
                   => \A f \in Range(ids) : <<Owner, f>> \in served']_vars

\* ------------------------------------------------------- concurrent attaches
\* SpecRace: two add_record requests, each in its own session, whose reads and
\* commits interleave freely; the tags they attach are created before either
\* request starts.
InFlight == {r \in Requests : sessions[r].pc # "idle"}

NextRace ==
    \/ \E nm \in TagNames, os \in NonEmpty({1, 2}) :
          InFlight = {} /\ CreateTag("programmer", nm, 1, {"alice"}, {}, os, FALSE)
    \/ \E r \in Requests, t \in LiveTags, os \in NonEmpty({1, 2}) :
          add_record_read(r, "programmer", t, os, FALSE)
    \/ \E r \in Requests : add_record_commit(r)

SpecRace == Init /\ [][NextRace]_vars

\* every other request that has started attaches the tag request r attaches
SameTagRace(r) ==
    \A q \in Requests \ {r} :
       sessions[q].pc = "idle" \/ sessions[q].tag_id = sessions[r].tag_id

\* C25: two concurrent requests that attach the same tag to the same output's
\* latest version, in any interleaving of their read and write steps, end
\* with the same tag map on that version as a single attach: each commit
\* leaves the maps a single attach on the committed state leaves, and the
\* commit that comes second changes nothing on the versions both requests
\* name.
RacingAttachesAsOne ==
    [][\A r \in Requests :
          add_record_commit(r) /\ SameTagRace(r) =>
             /\ versions' = update_output_details_hstore_tags(versions,
                               LatestRows(versions, sessions[r].valid_ids),
                               sessions[r].tag_id, sessions[r].tag_name)
             /\ \A q \in Requests \ {r} :
                   sessions[q].pc = "done" =>
                      \A o \in sessions[r].valid_ids \cap sessions[q].valid_ids :
                         versions'[o] = versions[o]]_vars

\* both requests have committed the same tag on a latest version that
\* neither of them saw tagged, and the version carries other keys too
BothAttachedUnseen ==
    /\ \A r \in Requests : sessions[r].pc = "done"
    /\ sessions[1].tag_id = sessions[2].tag_id
    /\ \E p \in LatestRows(versions, sessions[1].valid_ids \cap sessions[2].valid_ids) :
          /\ \A r \in Requests :
                sessions[r].tag_id \notin DOMAIN sessions[r].loaded[p[1]][p[2]].tags
          /\ sessions[1].tag_id \in DOMAIN versions[p[1]][p[2]].tags
          /\ Cardinality(DOMAIN versions[p[1]][p[2]].tags) = 2

\* ------------------------------------------------------------ mixed batches
\* SpecOverlap: a remove_record request whose middleware resumes after other
\* requests have attached records to the same tag, so that the difference it
\* logs holds outputs added and outputs removed.
NextOverlap ==
    \/ \E us \in NonEmpty(Users), os \in NonEmpty(LedgerOutputs) :
          /\ nextTagId = 1 /\ InFlight = {}
          /\ CreateTag("programmer", "ADR_2024", 1, us, {}, os, FALSE)
    \/ \E t \in LiveTags, os \in NonEmpty(LedgerOutputs) :
          remove_record_handle(1, "programmer", t, os)
    \/ \E t \in LiveTags, os \in NonEmpty(LedgerOutputs) :
          AddRecord("programmer", t, os, FALSE)
    \/ remove_record_log(1)

SpecOverlap == Init /\ [][NextOverlap]_vars

\* the outputs the batch of request r adds to and removes from its tag
AddedInBatch(r) ==
    OutputIdsOf(TagSnapshot(tags, versions, sessions[r].tag_id).output_details)
       \ OutputIdsOf(sessions[r].old.output_details)
RemovedInBatch(r) ==
    OutputIdsOf(sessions[r].old.output_details)
       \ OutputIdsOf(TagSnapshot(tags, versions, sessions[r].tag_id).output_details)

\* C26: when one tag UPDATE or SYNC batch both adds outputs to the tag and
\* removes other outputs from it, the added outputs get an open row for every
\* currently resolved user of the tag and the removed outputs have their open
\* rows for that tag closed at the request timestamp, both in that same batch.
MixedBatchAddsAndCloses ==
    [][\A r \in Requests :
          (/\ remove_record_log(r)
           /\ AddedInBatch(r) # {} /\ RemovedInBatch(r) # {}
           /\ "output_details" \in {e.object_property : e \in audit_logs'}) =>
             LET t == sessions[r].tag_id
             IN  /\ \A o \in AddedInBatch(r) : \A u \in get_all_users(tags, dls, t) :
                       \E row \in OpenRows(ledger', t) : row.out = o /\ row.user = u
                 /\ \A row \in OpenRows(ledger, t) :
                       row.out \in RemovedInBatch(r) =>
                          /\ row \notin OpenRows(ledger', t)
                          /\ BagIn([row EXCEPT !.to = now'], ledger')]_vars

\* --------------------------------------------------------- access and rows
\* C27: after any sequence of tag and distribution-list mutations processed
\* by the reconciler, the ledger has an open row for (tag T, output O, user u)
\* if and only if O is currently linked to T and u is currently a direct user
\* of T or a user of a distribution list linked to T; in particular a user
\* who loses one of two access paths to T keeps their open rows.
OpenRowsTrackAccess ==
    \A t \in TagIds, o \in OutputIds, u \in Users :
        OpenRowsOfTriple(t, o, u) # {}
           <=> /\ tags[t].live
               /\ o \in OutputsCarrying(versions, t)
               /\ u \in get_all_users(tags, dls, t)

\* ------------------------------------------------- the tag's users endpoints
\* C28: removing a subset of a tag's direct users through DELETE
\* /{tag_id}/users closes only the open rows of the removed users, the open
\* rows of the tag's remaining users stay open, and adding users through POST
\* /{tag_id}/users opens rows for the added users on every output linked to
\* the tag.
TagUsersEndpointsReachLedger ==
    [][\A t \in TagIds, us \in NonEmpty(Users) :
          /\ RemoveUsersFromTag("programmer", t, us) /\ resp'.status = 200 =>
                \A r \in OpenRows(ledger, t) :
                   IF r.user \in us
                   THEN r \notin OpenRows(ledger', t)
                   ELSE r \in OpenRows(ledger', t)
          /\ AddUsersToTag("programmer", t, us) /\ resp'.status = 200 =>
                \A u \in us \ tags[t].users : \A o \in OutputsCarrying(versions, t) :
                   \E r \in OpenRowsOfUser(ledger', t, u) : r.out = o]_vars

\* ------------------------------------------------------- keys and tag names
\* C29: in every state reachable by tag create, add/remove records, rename,
\* sync and tag delete, every key present in any version's tag map is the id
\* of a tag that currently exists, and its value is that tag's current name.
KeysNameLiveTags ==
    \A p \in AllVersionRows(versions) :
        \A k \in DOMAIN versions[p[1]][p[2]].tags :
            /\ k \in TagIds /\ tags[k].live
            /\ versions[p[1]][p[2]].tags[k] = tags[k].tag_name

\* ------------------------------------------------------ Lustre-to-S3 sync
\* SpecSync: syncs of outputs 1 to 3 against a repository listing and records
\* drawn at the start: output 1's adr_filepath and file_path vary, output 2's
\* resolve, output 3 has no record.
AdrPaths == {<<>>,
             <<"adr", "PROD", "pharma", "c1", "output", "file.pdf">>,
             <<"adr", "pharma", "c1", "output", "file.pdf">>,
             <<"adr", "PROD", "c1", "output", "file.pdf">>}
RepoFiles == {[orig |-> "file.pdf", ver |-> <<1, 1>>],
              [orig |-> "file.pdf", ver |-> <<2, 0>>],
              [orig |-> "file.pdf", ver |-> NoVersion],
              [orig |-> "other.pdf", ver |-> <<3, 0>>]}

InitSync ==
    /\ tags = [t \in TagIds |-> NoTag]
    /\ nextTagId = 1
    /\ dls = [d \in DLIds |-> NoDL]
    /\ versions = [o \in OutputIds |->
                     << [major |-> 1, minor |-> 0, is_latest |-> TRUE, tags |-> NoTags] >>]
    /\ links = {}
    /\ ledger = EmptyBag
    /\ now = 0
    /\ served = {}
    /\ docs_shared_as = [o \in OutputIds |-> "None"]
    /\ audit_logs = {}
    /\ fault = "none"
    /\ horizon = MaxTime
    /\ sessions = [r \in Requests |-> IdleSession]
    /\ resp = [status |-> 0, error |-> ""]
    /\ \E adr \in AdrPaths, fp \in {<<>>, FilePath(1)}, listing \in SUBSET RepoFiles :
          sync = [IdleSync EXCEPT
                     !.listing = listing,
                     !.od = [o \in OutputIds |->
                               IF o = 3 THEN NoOutputDetail
                               ELSE [present |-> TRUE,
                                     adr_filepath |-> IF o = 1 THEN adr ELSE
                                        <<"adr", "PREPROD", "pharma", "c1", "output", "file.pdf">>,
                                     file_path |-> IF o = 1 THEN fp ELSE FilePath(o),
                                     space_version |-> <<1, 0>>, orca_version |-> <<1, 0>>,
                                     is_out_of_sync |-> TRUE]]]

NextSync ==
    \/ \E o \in OutputIds : sync_lookup(o)
    \/ \E outcomes \in [1..(retries + 1) -> UploadOutcomes] : sync_upload(outcomes)
    \/ \E outcomes \in [1..max_retries -> BOOLEAN] : sync_record(outcomes)

SpecSync == InitSync /\ [][NextSync]_vars

\* the stored version and out-of-sync flag of every record
StoredVersions(state) ==
    [o \in OutputIds |-> <<state.od[o].space_version, state.od[o].orca_version,
                           state.od[o].is_out_of_sync>>]

\* C30: in the Lustre-to-S3 version sync of one output, the record's version
\* fields are updated only after the upload to S3 has succeeded; if path
\* resolution, version lookup, the upload (after its retries) or the database
\* update (after its retries) fails, the result reports success = false and
\* the record's stored version and out-of-sync flag are left as they were.
RecordFollowsUpload ==
    [][/\ StoredVersions(sync') # StoredVersions(sync) =>
             /\ sync.pc = "record"
             /\ sync.s3[sync.result.id] = [ver |-> sync.chosen[1].ver, complete |-> TRUE]
             /\ sync'.result.success
       /\ \A o \in OutputIds :
             (/\ sync_lookup(o)
              /\ \/ resolve_repo_versions_path(sync.od[o].adr_filepath) = <<>>
                 \/ find_latest_version_file(sync.listing, "file.pdf") = <<>>) =>
                /\ sync'.pc = "done" /\ ~sync'.result.success
                /\ StoredVersions(sync') = StoredVersions(sync)
       /\ \A outcomes \in [1..(retries + 1) -> UploadOutcomes] :
             (sync_upload(outcomes) /\ \A i \in DOMAIN outcomes : outcomes[i] # "ok") =>
                /\ sync'.pc = "done" /\ ~sync'.result.success
                /\ StoredVersions(sync') = StoredVersions(sync)
       /\ \A outcomes \in [1..max_retries -> BOOLEAN] :
             (sync_record(outcomes) /\ \A i \in DOMAIN outcomes : ~outcomes[i]) =>
                /\ sync'.pc = "done" /\ ~sync'.result.success
                /\ StoredVersions(sync') = StoredVersions(sync)]_vars

\* a run whose upload succeeded and whose database update failed after its
\* retries: the object holds the new version, the record the old one
UploadedButNotRecorded ==
    /\ sync.pc = "done"
    /\ sync.result.message = "DB update failed after retries"
    /\ ~sync.result.success
    /\ sync.s3[sync.result.id] = [ver |-> sync.result.new_version, complete |-> TRUE]
    /\ sync.od[sync.result.id].space_version = sync.result.old_version
    /\ sync.result.old_version # sync.result.new_version
    /\ sync.od[sync.result.id].is_out_of_sync

\* ------------------------------------------------------------- append-only
\* C20: the ledger is append-only across every reconciler operation: no row
\* is ever removed, a tag DELETE closes every still-open row of that tag at
\* the request timestamp, and a closed row keeps its shared_from and
\* shared_to timestamps for good.
LedgerAppendOnly ==
    [][/\ BagCardinality(ledger') >= BagCardinality(ledger)
       /\ \A r \in DOMAIN ledger :
             r.to # NullTs => BagIn(r, ledger') /\ CopiesIn(r, ledger') >= CopiesIn(r, ledger)
       /\ \A t \in TagIds :
             DeleteTag("programmer", t) /\ resp'.status = 200 =>
                /\ OpenRows(ledger', t) = {}
                /\ \A r \in OpenRows(ledger, t) : BagIn([r EXCEPT !.to = now'], ledger')]_vars

\* a tag was deleted and a row of it was closed at the request timestamp
TagDeletedWithRowsClosed ==
    \E t \in TagIds :
       /\ ~tags[t].live
       /\ \E e \in audit_logs : e.action = "DELETE" /\ e.object_key = t
                                   /\ e.object_type = "database_release_tag"
       /\ \E r \in DOMAIN ledger : r.tag_id = t /\ r.to = now
====
